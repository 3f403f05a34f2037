------------------------------ MODULE EventLog ------------------------------
(***************************************************************************)
(* What the write-ahead log promises to the event queue, with no lock, no  *)
(* channel capacity and no goroutine in it: requests are taken in order,   *)
(* one at a time, and put into the bucket or dropped; a removal and a put  *)
(* are atomic; after the log is closed requests are refused, and when      *)
(* Close has returned none is left and the bucket no longer changes.       *)
(*                                                                         *)
(* Persistence implements this specification with its locks; EventQueue,   *)
(* which treats the calls of Persistence as single steps, does so as well. *)
(***************************************************************************)
EXTENDS Sequences

CONSTANTS
    Events,   \* the events that may be logged
    NoEvent   \* "no event"

VARIABLES
    bucket,   \* logged events
    requests, \* requests to log an event that have not been looked at
    putting,  \* the request that is being put into the bucket
    phase     \* "open", "closing", "closed"

vars == <<bucket, requests, putting, phase>>

Init ==
    /\ bucket = {}
    /\ requests = <<>>
    /\ putting = NoEvent
    /\ phase = "open"

(* EnqueueAsync that finds the log open and room in its buffer.             *)
Request(e) ==
    /\ phase = "open"
    /\ requests' = Append(requests, e)
    /\ UNCHANGED <<bucket, putting, phase>>

(* writeLoop looks at the next request; a closed log refuses it.            *)
Take ==
    /\ putting = NoEvent
    /\ requests # <<>>
    /\ requests' = Tail(requests)
    /\ putting' = IF phase = "open" THEN Head(requests) ELSE NoEvent
    /\ UNCHANGED <<bucket, phase>>

(* The transaction of a request commits or fails.                          *)
Put ==
    /\ putting # NoEvent
    /\ bucket' \in {bucket, bucket \cup {putting}}
    /\ putting' = NoEvent
    /\ UNCHANGED <<requests, phase>>

Remove(ids) ==
    /\ phase = "open"
    /\ bucket' = bucket \ ids
    /\ UNCHANGED <<requests, putting, phase>>

Close ==
    /\ phase = "open"
    /\ phase' = "closing"
    /\ UNCHANGED <<bucket, requests, putting>>

(* Close returns: nothing is in flight.                                     *)
Closed ==
    /\ phase = "closing"
    /\ requests = <<>>
    /\ putting = NoEvent
    /\ phase' = "closed"
    /\ UNCHANGED <<bucket, requests, putting>>

(* The process ends, in whatever state, and another one opens the bucket.   *)
Reopen ==
    /\ requests' = <<>>
    /\ putting' = NoEvent
    /\ phase' = "open"
    /\ UNCHANGED bucket

Next ==
    \/ \E e \in Events : Request(e)
    \/ Take
    \/ Put
    \/ \E ids \in SUBSET Events : Remove(ids)
    \/ Close
    \/ Closed
    \/ Reopen

Spec == Init /\ [][Next]_vars
=============================================================================
