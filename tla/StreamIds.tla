------------------------------ MODULE StreamIds ------------------------------
(***************************************************************************)
(* The ids of the Redis streams that hold the mediator's queues, and the   *)
(* stream commands the Lua functions use (XADD, XDEL, XRANGE).             *)
(*                                                                         *)
(* An id is a time and a sequence number.  atm-functions.lua computes the  *)
(* time itself, by writing the milliseconds after the seconds without      *)
(* padding them, and lets Redis choose the sequence number ("<time>-*").   *)
(*                                                                         *)
(* Seconds since the epoch have ten digits in the program.  Here they are  *)
(* small numbers of a fixed number of digits (SecDigits): only the number  *)
(* of digits that the milliseconds add matters to what is computed.        *)
(***************************************************************************)
EXTENDS Naturals, FiniteSets, SequencesExt

StreamId == [time : Nat, seq : Nat]

\* The last-generated id of a stream nothing was ever added to.
ZeroId == [time |-> 0, seq |-> 0]

IdLess(a, b) ==
  \/ a.time < b.time
  \/ a.time = b.time /\ a.seq < b.seq

(***************************************************************************)
(* string.format("%d%d", seconds, microseconds / 1000)                     *)
(***************************************************************************)
StreamTime(clock) ==
  IF clock.ms < 10 THEN 10 * clock.sec + clock.ms
  ELSE IF clock.ms < 100 THEN 100 * clock.sec + clock.ms
  ELSE 1000 * clock.sec + clock.ms

(***************************************************************************)
(* XADD <stream> <time>-*: Redis refuses a time below that of the last id  *)
(* it generated for the stream, whether or not that entry still exists.    *)
(***************************************************************************)
CanAppend(last, time) == time >= last.time

AppendId(last, time) ==
  [time |-> time, seq |-> IF time = last.time THEN last.seq + 1 ELSE 0]

\* XDEL: the entry with that id leaves the stream, its last id stays.
WithoutId(entries, id) == {e \in entries : e.id # id}

(***************************************************************************)
(* XRANGE <stream> (<start> + COUNT <limit>, as a set and in stream order. *)
(* A start of ZeroId stands for "-".                                       *)
(***************************************************************************)
RangeSetNewest(entries, start, limit) ==
  LET after == {e \in entries : IdLess(start, e.id)}
  IN  {e \in after : Cardinality({f \in after : IdLess(e.id, f.id)}) < limit}

RangeSet(entries, start, limit) ==
  LET after == {e \in entries : IdLess(start, e.id)}
  IN  {e \in after : Cardinality({f \in after : IdLess(f.id, e.id)}) < limit}

InStreamOrder(entries) ==
  CHOOSE s \in SetToSeqs(entries) :
    \A i, j \in DOMAIN s : i < j => ~IdLess(s[j].id, s[i].id)

(***************************************************************************)
(* The test inbox_fetch_handler applies to a start_id: at least thirteen   *)
(* digits (ten of them the seconds), a dash, and one to three digits.      *)
(***************************************************************************)
StartIdAccepted(id, secDigits) ==
  /\ id.time >= 10 ^ (secDigits + 2)
  /\ id.seq < 1000
==============================================================================
