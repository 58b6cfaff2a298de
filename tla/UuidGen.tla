------------------------------- MODULE UuidGen -------------------------------
(***************************************************************************)
(* The time part of version 1 UUIDs (cql_types/uuid.rs): threads share a   *)
(* generator and allocate timestamps from one atomic word, last_timestamp, *)
(* with a load followed by a compare-and-swap or a fetch-and-add.  The     *)
(* fixed offset between the UUID and the Unix epochs, a whole number of    *)
(* milliseconds, is left out; 60 bits last until the year 5236, so the     *)
(* timestamps are unbounded here.                                          *)
(***************************************************************************)
EXTENDS Naturals, FiniteSets

CONSTANTS Threads, Ticks,   \* 100 ns ticks in a millisecond: 10000 in the code
          MaxMs,            \* the wall clock stays in 1 .. MaxMs
          MaxCalls          \* calls per thread

ASSUME UuidAssumption ==
    /\ Ticks \in Nat \ {0} /\ MaxMs \in Nat \ {0} /\ MaxCalls \in Nat

VARIABLES clock,   \* SystemTime::now(), in milliseconds
          setBack, \* has the clock ever been set back
          last,    \* CassUuidGen.last_timestamp
          pc,      \* where each thread is
          now,     \* its sample of the clock
          read,    \* what it loaded from last_timestamp
          calls,   \* the calls it has begun
          start,   \* last_timestamp when its call began
          out      \* the timestamps given out, with thread and call

vars == <<clock, setBack, last, pc, now, read, calls, start, out>>

Stamp == [thread : Threads, call : Nat, ts : Nat]

TypeOK ==
    /\ clock \in 1 .. MaxMs
    /\ setBack \in BOOLEAN
    /\ last \in Nat
    /\ pc \in [Threads -> {"idle", "clock", "load", "cas", "add"}]
    /\ now \in [Threads -> Nat]
    /\ read \in [Threads -> Nat]
    /\ calls \in [Threads -> 0 .. MaxCalls]
    /\ start \in [Threads -> Nat]
    /\ out \subseteq Stamp

to_milliseconds(timestamp) == timestamp \div Ticks

from_unix_timestamp(ms) == ms * Ticks

(* cass_uuid_gen_new: last_timestamp is 0.                                  *)
Init ==
    /\ clock \in 1 .. MaxMs
    /\ setBack = FALSE
    /\ last = 0
    /\ pc = [t \in Threads |-> "idle"]
    /\ now = [t \in Threads |-> 0]
    /\ read = [t \in Threads |-> 0]
    /\ calls = [t \in Threads |-> 0]
    /\ start = [t \in Threads |-> 0]
    /\ out = {}

(* The wall clock advances, or is set back.                                 *)
ClockChanges ==
    /\ \E c \in 1 .. MaxMs :
          /\ c # clock
          /\ clock' = c
          /\ setBack' = (setBack \/ c < clock)
    /\ UNCHANGED <<last, pc, now, read, calls, start, out>>

(* cass_uuid_gen_time calls monotonic_timestamp.                            *)
GenTime(t) ==
    /\ pc[t] = "idle" /\ calls[t] < MaxCalls
    /\ pc' = [pc EXCEPT ![t] = "clock"]
    /\ calls' = [calls EXCEPT ![t] = @ + 1]
    /\ start' = [start EXCEPT ![t] = last]
    /\ UNCHANGED <<clock, setBack, last, now, read, out>>

SampleClock(t) ==
    /\ pc[t] = "clock"
    /\ now' = [now EXCEPT ![t] = from_unix_timestamp(clock)]
    /\ pc' = [pc EXCEPT ![t] = "load"]
    /\ UNCHANGED <<clock, setBack, last, read, calls, start, out>>

BugNoBoundary(n, l) ==      \* the tick after the last one of a millisecond
    IF n > l THEN "cas"
    ELSE IF to_milliseconds(n) < to_milliseconds(l) THEN "add" ELSE "cas"

(* try_monotonic_timestamp: what to do with the word just loaded.           *)
Plan(n, l) ==
    IF n > l THEN "cas"
    ELSE IF to_milliseconds(n) < to_milliseconds(l) THEN "add"
    ELSE IF to_milliseconds(l + 1) = to_milliseconds(l) THEN "cas"
    ELSE "clock"

Load(t) ==
    /\ pc[t] = "load"
    /\ read' = [read EXCEPT ![t] = last]
    /\ pc' = [pc EXCEPT ![t] = Plan(now[t], last)]
    /\ UNCHANGED <<clock, setBack, last, now, calls, start, out>>

GiveOut(t, ts) ==
    /\ last' = ts
    /\ out' = out \cup {[thread |-> t, call |-> calls[t], ts |-> ts]}
    /\ pc' = [pc EXCEPT ![t] = "idle"]
    /\ UNCHANGED <<clock, setBack, now, read, calls, start>>

Candidate(t) == IF now[t] > read[t] THEN now[t] ELSE read[t] + 1

BugStoreBlindly(t) ==       \* a plain store instead of compare_exchange
    pc[t] = "cas" /\ GiveOut(t, Candidate(t))

BugRetryCas(t) ==           \* a failed exchange is tried again as it is
    pc[t] = "cas" /\ last = read[t] /\ GiveOut(t, Candidate(t))

CompareExchange(t) ==
    /\ pc[t] = "cas"
    /\ \/ last = read[t] /\ GiveOut(t, Candidate(t))
       \/ /\ last # read[t]
          /\ pc' = [pc EXCEPT ![t] = "clock"]
          /\ UNCHANGED <<clock, setBack, last, now, read, calls, start, out>>

BugLoadThenStore(t) ==      \* adds to the value loaded earlier
    pc[t] = "add" /\ GiveOut(t, read[t] + 1)

BugAddReturnsOld(t) ==      \* fetch_add without the wrapping_add(1)
    /\ pc[t] = "add"
    /\ last' = last + 1
    /\ out' = out \cup {[thread |-> t, call |-> calls[t], ts |-> last]}
    /\ pc' = [pc EXCEPT ![t] = "idle"]
    /\ UNCHANGED <<clock, setBack, now, read, calls, start>>

FetchAdd(t) == pc[t] = "add" /\ GiveOut(t, last + 1)

Finished ==
    /\ \A t \in Threads : pc[t] = "idle" /\ calls[t] = MaxCalls
    /\ UNCHANGED vars

Work(t) == SampleClock(t) \/ Load(t) \/ CompareExchange(t) \/ FetchAdd(t)

Next ==
    \/ \E t \in Threads : GenTime(t) \/ Work(t)
    \/ ClockChanges
    \/ Finished

Spec == Init /\ [][Next]_vars

(* Threads keep running; the clock need not move.                           *)
FairSpec == Spec /\ \A t \in Threads : WF_vars(Work(t))

-----------------------------------------------------------------------------
(* No timestamp is given out twice, across threads, lost exchanges and clock *)
(* changes: version 1 UUIDs of a generator are unique.                       *)
Unique == \A a, b \in out : a.ts = b.ts => a = b

(* A call returns a later timestamp than every call that ended before it     *)
(* began: time UUIDs are ordered the way the calls are.                      *)
RealTimeOrder ==
    \A a \in out : a.call = calls[a.thread] => a.ts > start[a.thread]

(* What makes them so: the word never falls behind a timestamp given out.    *)
WordInv ==
    /\ \A a \in out : a.ts <= last /\ a.call <= calls[a.thread]
    /\ \A t \in Threads : start[t] <= last
    /\ \A t \in Threads : pc[t] # "idle" => \A a \in out : a.thread = t => a.call < calls[t]
    /\ \A t \in Threads : pc[t] = "cas" => read[t] <= last

(* Losing an exchange is another call's gain: while calls are under way, one *)
(* of them gets its timestamp, unless the current millisecond is used up.    *)
(* The loop is lock-free and no more than that; nothing is claimed of any    *)
(* one call, which others may overtake for ever.                             *)
Full == to_milliseconds(last) = clock /\ to_milliseconds(last + 1) > clock
SomeCallReturns ==
    \A n \in 0 .. Cardinality(Threads) * MaxCalls :
        Cardinality(out) = n /\ (\E t \in Threads : pc[t] # "idle")
            ~> Cardinality(out) > n \/ Full

(* As long as a single thread uses the generator and the clock has never     *)
(* been set back, no timestamp runs ahead of the wall clock's millisecond.   *)
Alone == ~setBack /\ \E t \in Threads : \A u \in Threads \ {t} : calls[u] = 0
NotAhead == Alone => to_milliseconds(last) <= clock

(* What makes it so: that thread's sample is neither ahead of the clock nor  *)
(* behind the word it is about to load, and one more tick is only taken      *)
(* within a millisecond.                                                     *)
ClockInv ==
    /\ \A t \in Threads : calls[t] = 0 => pc[t] = "idle"
    /\ \A t \in Threads : pc[t] = "cas" =>
          now[t] > read[t] \/ to_milliseconds(read[t] + 1) = to_milliseconds(read[t])
    /\ Alone => \A t \in Threads :
          /\ pc[t] # "add"
          /\ pc[t] \in {"load", "cas"} => to_milliseconds(now[t]) <= clock
          /\ pc[t] = "load" => to_milliseconds(last) <= to_milliseconds(now[t])

(* The inductive invariant: the types, the word, the clock and the three     *)
(* properties.                                                               *)
StampInv == TypeOK /\ WordInv /\ Unique /\ RealTimeOrder
GenInv == StampInv /\ ClockInv /\ NotAhead
=============================================================================
