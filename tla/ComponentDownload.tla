-------------------------- MODULE ComponentDownload --------------------------
(******************************************************************************)
(* download_latest: ask the version-history service for the browser           *)
(* version, then fetch the component package through redirects and the        *)
(* edge mirror, read it up to a size limit, and verify it.                    *)
(*                                                                            *)
(* A URL is its authority and the class of its path; the code looks at        *)
(* nothing else.  A URL that starts with none of the five authorities and     *)
(* the slash behind it is "elsewhere".  An iteration of the loop is two       *)
(* steps: the allowlist check, then one request and what the loop does with   *)
(* the answer.  The servers may answer anything.                              *)
(******************************************************************************)
EXTENDS Integers

CONSTANTS
  MaxRedirects,   \* MAX_REDIRECTS, the number of loop iterations
  MaxBytes,       \* MAX_CRX_BYTES
  BodySizes       \* lengths of the bodies a server may send

Authorities == {"clients2.google.com", "www.google.com", "dl.google.com",
                "edgedl.me.gvt1.com", "redirector.gvt1.com", "elsewhere"}
Paths == {"dl", "edgedl", "other"}
Urls == [authority : Authorities, path : Paths]

ASSUME DownloadAssumption ==
  /\ MaxRedirects \in Nat \ {0}
  /\ MaxBytes \in Nat
  /\ BodySizes \subseteq Nat

Phases == {"browser", "fetch", "call", "read", "verify", "done",
           "failed", "rejected_url", "too_many"}

VARIABLES
  phase,      \* where download_latest is, or how it ended
  current,    \* the URL of the next request
  iteration,  \* iterations of the loop so far
  redirects,  \* redirects followed so far
  mirrored,   \* fallbacks to the edge mirror so far
  requested,  \* the URLs requested so far
  served,     \* the length of the body the server sends
  taken       \* the number of bytes read_limited has taken

vars == <<phase, current, iteration, redirects, mirrored, requested, served, taken>>

-----------------------------------------------------------------------------
Allowed(url) ==
  \/ url.authority \in {"clients2.google.com", "dl.google.com"}
  \/ url.authority = "www.google.com" /\ url.path = "dl"
  \/ url.authority \in {"edgedl.me.gvt1.com", "redirector.gvt1.com"} /\ url.path = "edgedl"
AllowedHost(url) == url.authority # "elsewhere"
UrlAccepted(url) == Allowed(url)

RequestUrl == [authority |-> "clients2.google.com", path |-> "other"]

(* edge_mirror_url *)
AnyGoogleHost(url) == url.authority # "elsewhere"
HasMirror(url) ==
  \/ url.authority = "dl.google.com"
  \/ url.authority = "www.google.com" /\ url.path = "dl"
Mirror == [authority |-> "edgedl.me.gvt1.com", path |-> "edgedl"]

(* resolve_redirect: an absolute https URL, or a path of the same authority.  *)
Redirected(url, to) == [authority |-> url.authority, path |-> to]

(* read_limited takes one byte more than the limit, to see that there is one. *)
TakenExactly(size) == IF size <= MaxBytes THEN size ELSE MaxBytes
Taken(size) == IF size <= MaxBytes + 1 THEN size ELSE MaxBytes + 1

-----------------------------------------------------------------------------
Init ==
  /\ phase = "browser"
  /\ current = RequestUrl
  /\ iteration = 0 /\ redirects = 0 /\ mirrored = 0
  /\ requested = {}
  /\ served = 0 /\ taken = 0

(* latest_stable_browser_version: an answer with a four-part version, or none *)
BrowserVersion ==
  /\ phase = "browser"
  /\ phase' = "fetch"
  /\ UNCHANGED <<current, iteration, redirects, mirrored, requested, served, taken>>

BrowserFails ==
  /\ phase = "browser"
  /\ phase' = "failed"
  /\ UNCHANGED <<current, iteration, redirects, mirrored, requested, served, taken>>

(* The loop runs over 0..MAX_REDIRECTS. *)
RangeInclusive == iteration > MaxRedirects
RangeSpent == iteration = MaxRedirects

(* The head of the loop: the range is used up, or the URL is not allowed.     *)
TooMany ==
  /\ phase = "fetch"
  /\ RangeSpent
  /\ phase' = "too_many"
  /\ UNCHANGED <<current, iteration, redirects, mirrored, requested, served, taken>>

UrlRejected ==
  /\ phase = "fetch"
  /\ ~RangeSpent
  /\ ~UrlAccepted(current)
  /\ phase' = "rejected_url"
  /\ UNCHANGED <<current, iteration, redirects, mirrored, requested, served, taken>>

UrlChecked ==
  /\ phase = "fetch"
  /\ ~RangeSpent
  /\ UrlAccepted(current)
  /\ phase' = "call"
  /\ UNCHANGED <<current, iteration, redirects, mirrored, requested, served, taken>>

(* One request is sent. *)
Request ==
  /\ phase = "call"
  /\ requested' = requested \cup {current}

(* "continue": the next iteration starts at the allowlist check.              *)
Continue(url) ==
  /\ current' = url
  /\ iteration' = iteration + 1
  /\ phase' = "fetch"

(* The call returns an error: try the mirror of this URL, if it has one.      *)
CallFails ==
  /\ Request
  /\ IF HasMirror(current)
     THEN Continue(Mirror) /\ mirrored' = mirrored + 1
     ELSE phase' = "failed" /\ UNCHANGED <<current, mirrored, iteration>>
  /\ UNCHANGED <<redirects, served, taken>>

Follow(url) ==
  /\ Continue(url)
  /\ redirects' = redirects + 1
  /\ UNCHANGED <<mirrored, served, taken>>

RedirectAbsolute(url) == Request /\ Follow(url)

RedirectPath(to) == Request /\ Follow(Redirected(current, to))

(* No usable Location, or a status that is neither a redirect nor a success.  *)
BadAnswer ==
  /\ Request
  /\ phase' = "failed"
  /\ UNCHANGED <<current, iteration, redirects, mirrored, served, taken>>

Success(size) ==
  /\ Request
  /\ served' = size
  /\ phase' = "read"
  /\ UNCHANGED <<current, iteration, redirects, mirrored, taken>>

(* read_limited *)
ReadBody ==
  /\ phase = "read"
  /\ taken' = Taken(served)
  /\ phase' = IF Taken(served) <= MaxBytes THEN "verify" ELSE "failed"
  /\ UNCHANGED <<current, iteration, redirects, mirrored, requested, served>>

ReadFails ==
  /\ phase = "read"
  /\ \E n \in 0 .. Taken(served) : taken' = n
  /\ phase' = "failed"
  /\ UNCHANGED <<current, iteration, redirects, mirrored, requested, served>>

(* crx3::verify_and_extract *)
Verify ==
  /\ phase = "verify"
  /\ phase' \in {"done", "failed"}
  /\ UNCHANGED <<current, iteration, redirects, mirrored, requested, served, taken>>

Next ==
  \/ BrowserVersion \/ BrowserFails
  \/ TooMany \/ UrlRejected \/ UrlChecked \/ CallFails \/ BadAnswer
  \/ \E url \in Urls : RedirectAbsolute(url)
  \/ \E to \in Paths : RedirectPath(to)
  \/ \E size \in BodySizes : Success(size)
  \/ ReadBody \/ ReadFails \/ Verify

Spec == Init /\ [][Next]_vars

-----------------------------------------------------------------------------
(* Properties *)

TypeOK ==
  /\ phase \in Phases
  /\ current \in Urls
  /\ iteration \in 0 .. MaxRedirects
  /\ redirects \in Nat /\ mirrored \in Nat
  /\ requested \subseteq Urls
  /\ served \in Nat /\ taken \in Nat

(* Whatever the servers answer, no request for the package leaves the         *)
(* component service and its CDN: not after an absolute redirect, not after a *)
(* path that leaves the download area of a shared host, not after a fallback  *)
(* to the mirror (component.rs:144-226).                                      *)
StaysOnAllowlist == \A url \in requested : Allowed(url)

(* Redirects and mirror fallbacks draw on one budget, and there is never a    *)
(* second fallback without a redirect in between: neither the first URL nor   *)
(* the mirror has a mirror (component.rs:144-171, 222-226).  So at least half *)
(* of the budget is left to redirects.                                        *)
SharedBudget ==
  /\ redirects + mirrored = iteration
  /\ mirrored <= redirects

(* A package handed to the verifier is the whole body the server sent, never  *)
(* its first MaxBytes bytes (component.rs:228-240).                           *)
WholeBody == phase \in {"verify", "done"} => taken = served

(* "component download exceeded {MAX_REDIRECTS} redirects"                    *)
(* (component.rs:185).                                                        *)
ExceedsRedirects == phase = "too_many" => redirects > MaxRedirects
=============================================================================
