---------------------- MODULE ComponentDownload_proofs ----------------------
(*****************************************************************************)
(* Proofs about ComponentDownload, for every redirect budget, size limit     *)
(* and behaviour of the servers.                                             *)
(*****************************************************************************)
EXTENDS ComponentDownload, TLAPS

(* A pending URL that has a mirror was reached by a redirect that no fallback *)
(* has answered yet.                                                          *)
Budget ==
  /\ SharedBudget
  /\ HasMirror(current) => mirrored < redirects

(* The URL about to be requested has passed the check of this iteration.      *)
Checked == phase = "call" => Allowed(current) /\ iteration < MaxRedirects

IInv == TypeOK /\ Checked /\ StaysOnAllowlist /\ Budget /\ WholeBody

LEMMA InitInv == Init => IInv
  BY DownloadAssumption
  DEF Init, IInv, TypeOK, Checked, StaysOnAllowlist, Budget, SharedBudget, WholeBody, Phases, Urls,
      Authorities, Paths, RequestUrl, HasMirror

LEMMA NextInv == IInv /\ [Next]_vars => IInv'
<1> SUFFICES ASSUME IInv, [Next]_vars PROVE IInv'
  OBVIOUS
<1> USE DownloadAssumption DEF RangeSpent, IInv, TypeOK, Checked, Budget, SharedBudget, Phases
<1>1. ASSUME Request PROVE StaysOnAllowlist'
  BY <1>1 DEF Request, StaysOnAllowlist
<1>2. ASSUME Request PROVE requested' \subseteq Urls /\ phase = "call" /\ iteration < MaxRedirects
  BY <1>2 DEF Request
<1>3. ASSUME UNCHANGED requested PROVE StaysOnAllowlist'
  BY <1>3 DEF StaysOnAllowlist
<1>4. CASE BrowserVersion \/ BrowserFails \/ TooMany \/ UrlRejected \/ UrlChecked
  <2>1. StaysOnAllowlist'
    BY <1>3, <1>4 DEF BrowserVersion, BrowserFails, TooMany, UrlRejected, UrlChecked
  <2> QED
    BY <1>4, <2>1
    DEF BrowserVersion, BrowserFails, TooMany, UrlRejected, UrlChecked, UrlAccepted, WholeBody,
        HasMirror
<1>5. CASE CallFails
  <2>1. StaysOnAllowlist' /\ requested' \subseteq Urls
    BY <1>1, <1>2, <1>5 DEF CallFails
  <2>2. CASE HasMirror(current)
    <3>1. /\ current' = Mirror /\ mirrored' = mirrored + 1 /\ iteration' = iteration + 1
          /\ phase' = "fetch"
          /\ UNCHANGED <<redirects, served, taken>>
      BY <1>5, <2>2 DEF CallFails, Continue
    <3>2. ~HasMirror(Mirror) /\ Mirror \in Urls
      BY DEF HasMirror, Mirror, Urls, Authorities, Paths
    <3>3. ~HasMirror(current')
      BY <3>1, <3>2
    <3>4. ~HasMirror(current)'
      BY <3>3 DEF HasMirror
    <3> QED
      BY <1>2, <1>5, <2>1, <2>2, <3>1, <3>2, <3>4 DEF CallFails, WholeBody
  <2>3. CASE ~HasMirror(current)
    BY <1>5, <2>1, <2>3 DEF CallFails, WholeBody, HasMirror
  <2> QED
    BY <2>2, <2>3
<1>6. ASSUME NEW url \in Urls, Request, Follow(url) PROVE IInv'
  <2>1. StaysOnAllowlist' /\ requested' \subseteq Urls
    BY <1>1, <1>2, <1>6
  <2> QED
    BY <1>2, <1>6, <2>1 DEF Follow, Continue, WholeBody
<1>7. ASSUME NEW to \in Paths PROVE Redirected(current, to) \in Urls
  BY DEF Redirected, Urls
<1>8. CASE BadAnswer
  BY <1>1, <1>2, <1>8 DEF BadAnswer, WholeBody, HasMirror
<1>9. ASSUME NEW size \in BodySizes, Success(size) PROVE IInv'
  BY <1>1, <1>2, <1>9 DEF Success, WholeBody, HasMirror
<1>10. CASE ReadBody
  <2>1. Taken(served) \in Nat /\ (Taken(served) <= MaxBytes => Taken(served) = served)
    BY DEF Taken
  <2> QED
    BY <1>3, <1>10, <2>1 DEF ReadBody, WholeBody, HasMirror
<1>11. CASE ReadFails
  <2>1. taken' \in Nat
    BY <1>11 DEF ReadFails, Taken
  <2> QED
    BY <1>3, <1>11, <2>1 DEF ReadFails, WholeBody, HasMirror
<1>12. CASE Verify
  BY <1>3, <1>12 DEF Verify, WholeBody, HasMirror
<1>13. CASE UNCHANGED vars
  BY <1>3, <1>13 DEF vars, WholeBody, HasMirror
<1> QED
  BY <1>4, <1>5, <1>6, <1>7, <1>8, <1>9, <1>10, <1>11, <1>12, <1>13
  DEF Next, RedirectAbsolute, RedirectPath

LEMMA Invariance == Spec => []IInv
  BY InitInv, NextInv, PTL DEF Spec

(* The downloader's counters, URL and body stay what the code says they are,  *)
(* whatever the servers answer (component.rs:136-185).                        *)
THEOREM TypeCorrect == Spec => []TypeOK
<1>1. IInv => TypeOK
  BY DEF IInv
<1> QED
  BY <1>1, Invariance, PTL

(* No sequence of redirects, path rewrites and mirror fallbacks makes the     *)
(* downloader ask a server outside the allowlist (component.rs:144-226).      *)
THEOREM OnlyAllowlisted == Spec => []StaysOnAllowlist
<1>1. IInv => StaysOnAllowlist
  BY DEF IInv
<1> QED
  BY <1>1, Invariance, PTL

(* Redirects and fallbacks share the loop's budget and fallbacks take at most *)
(* half of it, for any budget (component.rs:144-171).                         *)
THEOREM BudgetShared == Spec => []SharedBudget
<1>1. IInv => SharedBudget
  BY DEF IInv, Budget
<1> QED
  BY <1>1, Invariance, PTL

(* A truncated body never reaches the verifier (component.rs:228-240).        *)
THEOREM NothingTruncated == Spec => []WholeBody
<1>1. IInv => WholeBody
  BY DEF IInv
<1> QED
  BY <1>1, Invariance, PTL
=============================================================================
