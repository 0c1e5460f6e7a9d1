------------------------------ MODULE ElkeidFS ------------------------------
(***************************************************************************)
(* The cache of kernel modules fetched for agents, for one file name:      *)
(* foreign/bytedance/elkeid.go and its endpoint agtapi/reverse.go.         *)
(***************************************************************************)
EXTENDS Requests

VARIABLES
    cached,  \* the file fname: "none", "whole", "page" (an error page), "part"
    temp,    \* the file fname.downloading
    downs,   \* elkeidFS.downs holds the name
    fetch,   \* request -> its progress
    leaked,  \* ghost: a request that had set the mark failed in Do
    misled   \* ghost: the origin answered with an error page

elkeidVars == <<cached, temp, downs, fetch, leaked, misled>>

NoFetch == [pc |-> "idle", owner |-> FALSE, body |-> "none"]

ElkeidInit ==
    /\ cached = "none" /\ temp = "none"
    /\ downs = FALSE
    /\ fetch = [r \in Request |-> NoFetch]
    /\ leaked = FALSE /\ misled = FALSE
    /\ faults = 0

FetchEnds(r) == fetch' = [fetch EXCEPT ![r] = NoFetch]

\* Open: a cached file is served; otherwise the request goes on to the mark.
OpenCached(r) ==
    /\ fetch[r].pc = "idle" /\ cached = "none"
    /\ fetch' = [fetch EXCEPT ![r].pc = "mark"]
    /\ UNCHANGED <<cached, temp, downs, leaked, misled, faults>>

\* Variant of Mark that looks and sets without the mutex having excluded another request.
MarkAlways(r) ==
    /\ fetch[r].pc = "mark"
    /\ downs' = TRUE
    /\ fetch' = [fetch EXCEPT ![r] = [@ EXCEPT !.pc = "do", !.owner = TRUE]]
    /\ UNCHANGED <<cached, temp, leaked, misled, faults>>

Mark(r) ==
    /\ fetch[r].pc = "mark"
    /\ downs' = TRUE
    /\ fetch' = [fetch EXCEPT ![r] = [@ EXCEPT !.pc = "do", !.owner = ~downs]]
    /\ UNCHANGED <<cached, temp, leaked, misled, faults>>

\* The request to the origin, whose status is not looked at.  Its error returns at once;
\* the mark stays.
Do(r) ==
    /\ fetch[r].pc = "do"
    /\ \/ \E body \in {"whole", "page"} :
             /\ fetch' = [fetch EXCEPT ![r] = [pc |-> IF @.owner THEN "create" ELSE "body",
                                               owner |-> @.owner, body |-> body]]
             /\ misled' = (misled \/ body = "page")
             /\ UNCHANGED <<leaked, faults>>
       \/ /\ Fails
          /\ FetchEnds(r)
          /\ leaked' = (leaked \/ fetch[r].owner)
          /\ UNCHANGED misled
    /\ UNCHANGED <<cached, temp, downs>>

\* The owner creates the temporary file, or gives the mark back.
Create(r) ==
    /\ fetch[r].pc = "create"
    /\ \/ /\ temp' = "part"
          /\ fetch' = [fetch EXCEPT ![r].pc = "copy"]
          /\ UNCHANGED <<downs, faults>>
       \/ Fails /\ FetchEnds(r) /\ downs' = FALSE /\ UNCHANGED temp
    /\ UNCHANGED <<cached, leaked, misled>>

\* copyFile.Read until EOF: the temporary file is what the origin sent.
ReadEOF(r) ==
    /\ fetch[r].pc = "copy"
    /\ temp' = fetch[r].body
    /\ fetch' = [fetch EXCEPT ![r].pc = "eof"]
    /\ UNCHANGED <<cached, downs, leaked, misled, faults>>

\* copyFile.Close, also when the agent or the origin broke off: renamed only after EOF (an
\* error of the rename is dropped), the mark is given back.
Close(r) ==
    /\ fetch[r].pc \in {"copy", "eof"}
    /\ \/ fetch[r].pc = "eof" /\ cached' = temp /\ temp' = "none" /\ UNCHANGED faults
       \/ fetch[r].pc = "copy" /\ UNCHANGED <<cached, temp, faults>>
       \/ fetch[r].pc = "eof" /\ Fails /\ UNCHANGED <<cached, temp>>
    /\ downs' = FALSE
    /\ FetchEnds(r)
    /\ UNCHANGED <<leaked, misled>>

\* bodyFile.Close.
BodyClose(r) ==
    /\ fetch[r].pc = "body"
    /\ FetchEnds(r)
    /\ UNCHANGED <<cached, temp, downs, leaked, misled, faults>>

\* The process ends and is started again: the files stay.
ElkeidRestart ==
    /\ downs' = FALSE /\ leaked' = FALSE
    /\ fetch' = [r \in Request |-> NoFetch]
    /\ UNCHANGED <<cached, temp, misled, faults>>

ElkeidNext ==
    \/ \E r \in Request : \/ OpenCached(r) \/ Mark(r) \/ Do(r) \/ Create(r)
                          \/ ReadEOF(r) \/ Close(r) \/ BodyClose(r)
    \/ ElkeidRestart
-----------------------------------------------------------------------------
(* Properties. *)

\* One request at a time writes the temporary file.
OneWriter == \A r, s \in Request :
    fetch[r].pc \in {"copy", "eof"} /\ fetch[s].pc \in {"copy", "eof"} => r = s

\* A truncated file is never served from the cache, and an error page only if the origin
\* sent one.
CachedWhole == cached \in {"none", "whole"} \/ (cached = "page" /\ misled)

\* The mark is held by a request under way, unless a request of its owner failed (after
\* which the file is streamed but not cached until the process is restarted).
MarkHeld == downs => leaked \/ \E r \in Request : fetch[r].owner

\* The cache is safe: whatever requests interleave, break off or fail, and whenever the
\* process is restarted.
CacheSafe == OneWriter /\ CachedWhole /\ MarkHeld
=============================================================================
