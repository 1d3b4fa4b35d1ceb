------------------------------ MODULE WebFetch ------------------------------
(***************************************************************************)
(* The web_fetch skill: one page, behind at most MaxRedirects redirects,   *)
(* with every hop resolved and checked anew, under a deadline for all of   *)
(* them together.                                                          *)
(***************************************************************************)
EXTENDS ToolCall

CONSTANT MaxRedirects

ASSUME RedirectsAssumption == MaxRedirects \in Nat

VARIABLES
    requests,   \* the requests a fetch has sent
    open        \* its responses that are not closed

fetchVars == <<requests, open>>

FetchPlaces == {"resolve", "headers", "status", "body", "markdown"}

(* Where fetch_page is inside its try: it has a response. *)
Opened == {"status", "body"}

FetchInit ==
    /\ requests = [c \in Calls |-> 0]
    /\ open = [c \in Calls |-> 0]

(* An address that is not of the web is refused at once; one that cannot   *)
(* be taken apart makes urlparse raise, which is not caught.               *)
FetchBegins(c) ==
    /\ \/ Awaits(c, "resolve")
       \/ Ends(c, "invalid")
       \/ Ends(c, "raised")
    /\ UNCHANGED fetchVars

(* validate_and_resolve_url; then the request to the address it found. *)
HopAllowed(c) ==
    /\ at[c] = "resolve"
    /\ requests' = [requests EXCEPT ![c] = @ + 1]
    /\ Awaits(c, "headers")
    /\ UNCHANGED open

HopRefused(c) ==
    /\ at[c] = "resolve"
    /\ Ends(c, "unavailable")
    /\ UNCHANGED fetchVars

RequestFails(c) ==
    /\ at[c] = "headers"
    /\ Ends(c, "unavailable")
    /\ UNCHANGED fetchVars

(* Mutant: the response is closed only once its body was read. *)
ClosedIfRead(c, o) == IF o = "result" THEN [open EXCEPT ![c] = @ - 1] ELSE open

(* finally: the response is closed, whatever ended the try block. *)
Closed(c, o) == [open EXCEPT ![c] = @ - 1]

(* send(stream=True) returns once the headers are there. *)
ResponseArrives(c) ==
    /\ at[c] = "headers"
    /\ open' = [open EXCEPT ![c] = @ + 1]
    /\ Awaits(c, "status")
    /\ UNCHANGED requests

(* Mutant: one more request is sent than redirects are allowed for. *)
OneHopMore(c) == requests[c] <= MaxRedirects + 1

(* range(MAX_REDIRECTS + 1) has another turn. *)
MayHop(c) == requests[c] <= MaxRedirects

(* A redirect: the response is closed before the next hop, as it is when   *)
(* there was one redirect too many or one that leads nowhere.              *)
Redirected(c) ==
    /\ at[c] = "status"
    /\ IF MayHop(c) THEN Awaits(c, "resolve") \/ Ends(c, "unavailable")
       ELSE Ends(c, "unavailable")
    /\ open' = Closed(c, "redirect")
    /\ UNCHANGED requests

(* An HTTP error, or a media type that is no text. *)
NotAPage(c) ==
    /\ at[c] = "status"
    /\ \E o \in {"unavailable", "invalid"} : Ends(c, o) /\ open' = Closed(c, o)
    /\ UNCHANGED requests

PageBegins(c) ==
    /\ at[c] = "status"
    /\ Awaits(c, "body")
    /\ UNCHANGED fetchVars

BodyRead(c) ==
    /\ at[c] = "body"
    /\ open' = Closed(c, "result")
    /\ Awaits(c, "markdown")
    /\ UNCHANGED requests

(* The page is too big, or the connection breaks. *)
BodyFails(c) ==
    /\ at[c] = "body"
    /\ \E o \in {"invalid", "unavailable"} : Ends(c, o) /\ open' = Closed(c, o)
    /\ UNCHANGED requests

(* The deadline covers all of fetch_page: it passes while the response is  *)
(* read, or while a redirect or a refused page awaits the close.           *)
DeadlinePasses(c) ==
    /\ at[c] \in FetchPlaces \ {"markdown"}
    /\ Ends(c, "unavailable")
    /\ open' = IF at[c] \in Opened THEN Closed(c, "unavailable") ELSE open
    /\ UNCHANGED requests

Extracted(c) ==
    /\ at[c] = "markdown"
    /\ Ends(c, "result") \/ Ends(c, "raised")
    /\ UNCHANGED fetchVars

FetchStep(c) ==
    \/ HopAllowed(c) \/ HopRefused(c) \/ RequestFails(c)
    \/ ResponseArrives(c) \/ Redirected(c) \/ NotAPage(c) \/ PageBegins(c)
    \/ BodyRead(c) \/ BodyFails(c)
    \/ DeadlinePasses(c) \/ Extracted(c)

FetchForgotten ==
    /\ requests' = [c \in Calls |-> 0]
    /\ open' = [c \in Calls |-> IF at[c] \in Opened THEN Closed(c, "none")[c] ELSE open[c]]
=============================================================================
