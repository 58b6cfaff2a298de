--------------------------- MODULE RuntimesProofs ---------------------------
(***************************************************************************)
(* The runtimes of sessions, for any sessions, thread counts and sequence  *)
(* of calls: what every step of theirs keeps.                              *)
(***************************************************************************)
EXTENDS Runtimes, TLAPS

(* The pointers to a runtime differ.                                        *)
LEMMA PointersApart ==
    /\ \A o, p \in Ops : /\ FutureOf(o) = FutureOf(p) => o = p
                         /\ TaskOf(o) = TaskOf(p) => o = p
                         /\ FutureOf(o) # TaskOf(p)
    /\ \A o \in Ops, s \in Sessions : FutureOf(o) # SessionOf(s) /\ TaskOf(o) # SessionOf(s)
    /\ \A s, t \in Sessions : SessionOf(s) = SessionOf(t) => s = t
BY DEF FutureOf, TaskOf, SessionOf

LEMMA NilApart == Nil \notin Ops /\ Nil \notin Op
BY RuntimesAssumption DEF Op

(* A new operation is one.                                                  *)
LEMMA NewOpTyped ==
    ASSUME NEW kind \in {"connect", "close", "request"}, NEW s \in Sessions, NEW rt \in Ops
    PROVE /\ NewOp(kind, s, rt) \in Op /\ NewOp(kind, s, rt) # Nil
          /\ NewOp(kind, s, rt).kind = kind
          /\ NewOp(kind, s, rt).session = s /\ NewOp(kind, s, rt).runtime = rt
          /\ NewOp(kind, s, rt).task = "pending" /\ NewOp(kind, s, rt).held = "yes"
BY RuntimesAssumption DEF NewOp, Op

(* The fields of an operation, and what setting one of them gives.          *)
LEMMA OpFields ==
    ASSUME NEW x \in Op
    PROVE /\ x.session \in Sessions /\ x.runtime \in Ops
          /\ x.task \in {"pending", "done", "cancelled"} /\ x.held \in {"yes", "no"}
BY DEF Op

LEMMA OpUpdates ==
    ASSUME NEW x \in Op
    PROVE /\ \A t \in {"done", "cancelled"} :
                /\ [x EXCEPT !.task = t] \in Op /\ [x EXCEPT !.task = t].task = t
                /\ [x EXCEPT !.task = t].kind = x.kind
                /\ [x EXCEPT !.task = t].session = x.session
                /\ [x EXCEPT !.task = t].runtime = x.runtime
                /\ [x EXCEPT !.task = t].held = x.held
          /\ [x EXCEPT !.held = "no"] \in Op /\ [x EXCEPT !.held = "no"].held = "no"
          /\ [x EXCEPT !.held = "no"].kind = x.kind
          /\ [x EXCEPT !.held = "no"].runtime = x.runtime
          /\ [x EXCEPT !.held = "no"].task = x.task
BY DEF Op

LEMMA OpsTyped ==
    ASSUME RuntimesInv
    PROVE /\ ops \in [Ops -> Op \cup {Nil}]
          /\ \A p \in Ops : ops[p] # Nil => /\ ops[p] \in Op /\ ops[p].session \in Sessions
                                           /\ ops[p].runtime \in Ops
                                           /\ ops[p].held \in {"yes", "no"}
<1>1. ops \in [Ops -> Op \cup {Nil}]
    BY DEF RuntimesInv, RuntimesTypeOK
<1>2. \A p \in Ops : ops[p] # Nil => ops[p] \in Op
    BY <1>1
<1> QED
    BY <1>1, <1>2, OpFields

(* The operations once the task of o is done, and once its future is freed. *)
WithDone(o) == [ops EXCEPT ![o].task = "done"]
WithFreed(o) == [ops EXCEPT ![o].held = "no"]

LEMMA Done ==
    ASSUME RuntimesInv, NEW o \in Ops, ops[o] # Nil, NEW done, done = WithDone(o)
    PROVE /\ done \in [Ops -> Op \cup {Nil}] /\ done[o] \in Op
          /\ done[o].kind = ops[o].kind /\ done[o].session = ops[o].session
          /\ done[o].runtime = ops[o].runtime /\ done[o].held = ops[o].held
          /\ done[o].task = "done" /\ done[o] # Nil
          /\ \A p \in Ops : p # o => done[p] = ops[p]
<1>1. PICK y : y = [ops[o] EXCEPT !.task = "done"]
    BY Zenon
<1>2. /\ y \in Op /\ y.task = "done" /\ y.kind = ops[o].kind /\ y.session = ops[o].session
      /\ y.runtime = ops[o].runtime /\ y.held = ops[o].held
    BY <1>1, OpsTyped, OpUpdates, Zenon
<1>3. done = [ops EXCEPT ![o] = y]
    BY <1>1 DEF WithDone
<1>4. /\ done \in [Ops -> Op \cup {Nil}] /\ done[o] = y
      /\ \A p \in Ops : p # o => done[p] = ops[p]
    BY <1>2, <1>3, OpsTyped
<1> QED
    BY <1>2, <1>4, NilApart

LEMMA Freed ==
    ASSUME RuntimesInv, NEW o \in Ops, ops[o] # Nil, NEW freed, freed = WithFreed(o)
    PROVE /\ freed \in [Ops -> Op \cup {Nil}] /\ freed[o] \in Op
          /\ freed[o].kind = ops[o].kind /\ freed[o].runtime = ops[o].runtime
          /\ freed[o].task = ops[o].task /\ freed[o].held = "no" /\ freed[o] # Nil
          /\ \A p \in Ops : p # o => freed[p] = ops[p]
<1>1. PICK y : y = [ops[o] EXCEPT !.held = "no"]
    BY Zenon
<1>2. /\ y \in Op /\ y.held = "no" /\ y.kind = ops[o].kind
      /\ y.runtime = ops[o].runtime /\ y.task = ops[o].task
    BY <1>1, OpsTyped, OpUpdates, Zenon
<1>3. freed = [ops EXCEPT ![o] = y]
    BY <1>1 DEF WithFreed
<1>4. /\ freed \in [Ops -> Op \cup {Nil}] /\ freed[o] = y
      /\ \A p \in Ops : p # o => freed[p] = ops[p]
    BY <1>2, <1>3, OpsTyped
<1> QED
    BY <1>2, <1>4, NilApart

(* What the invariant says of the pointers to a runtime, and of connections. *)
LEMMA Owned ==
    ASSUME RuntimesInv
    PROVE /\ \A r, p \in Ops :
                /\ FutureOf(p) \in owners[r] <=>
                      /\ ops[p] # Nil /\ ops[p].runtime = r
                      /\ ops[p].held = "yes" \/ ops[p].task = "pending"
                /\ TaskOf(p) \in owners[r] <=> /\ ops[p] # Nil /\ ops[p].kind = "connect"
                                               /\ ops[p].task = "pending" /\ ops[p].runtime = r
          /\ \A r \in Ops, t \in Sessions : SessionOf(t) \in owners[r] <=> connected[t] = r
          /\ connected \in [Sessions -> Ops \cup {Nil}]
          /\ \A t \in Sessions : connected[t] # Nil => ops[connected[t]] # Nil
<1>1. /\ \A r, p \in Ops :
            /\ FutureOf(p) \in owners[r] <=>
                  /\ ops[p] # Nil /\ ops[p].runtime = r
                  /\ ops[p].held = "yes" \/ ops[p].task = "pending"
            /\ TaskOf(p) \in owners[r] <=> Running(p, "connect") /\ ops[p].runtime = r
      /\ \A r \in Ops, t \in Sessions : SessionOf(t) \in owners[r] <=> connected[t] = r
    BY DEF RuntimesInv, OwnersExact
<1>2. /\ connected \in [Sessions -> Ops \cup {Nil}]
      /\ \A t \in Sessions : connected[t] # Nil => ops[connected[t]] # Nil
    BY DEF RuntimesInv, RuntimesTypeOK, Made
<1> QED
    BY <1>1, <1>2 DEF Running

(* A connect call takes the one runtime its thread count has, or makes it.  *)
LEMMA ConnectStep ==
    ASSUME RuntimesInv, NEW o \in Ops, NEW s \in Sessions, NEW n \in ThreadCounts,
           connect(o, s, n)
    PROVE RuntimesInv'
<1> DEFINE rt == cached_or_new_runtime(cache[n], o)
<1>1. /\ ops[o] = Nil
      /\ cache' = [cache EXCEPT ![n] = rt]
      /\ threads' = [threads EXCEPT ![rt] = n]
      /\ owners' = [owners EXCEPT ![rt] = @ \cup {FutureOf(o), TaskOf(o)}]
      /\ ops' = [ops EXCEPT ![o] = NewOp("connect", s, rt)]
      /\ connected' = connected
    BY DEF connect, Fresh
<1>2. /\ rt \in Ops
      /\ rt # o => rt = cache[n] /\ cache[n] # Nil /\ owners[rt] # {}
      /\ rt = o => cache[n] = Nil \/ owners[cache[n]] = {}
  <2>1. /\ cache[n] \in Ops \cup {Nil}
        /\ cache[n] # Nil => ops[cache[n]] # Nil
      BY DEF RuntimesInv, RuntimesTypeOK, Made
  <2>2. rt = IF cache[n] # Nil /\ owners[cache[n]] # {} THEN cache[n] ELSE o
      BY DEF cached_or_new_runtime
  <2> HIDE DEF rt
  <2> QED
      BY <1>1, <2>1, <2>2
<1>3. owners[o] = {}
    BY <1>1, RuntimesAssumption DEF RuntimesInv, OwnersExact, Made, Pointers, Running
<1> HIDE DEF rt
<1>4. /\ ops'[o] = NewOp("connect", s, rt)
      /\ \A p \in Ops : p # o => ops'[p] = ops[p]
    BY <1>1 DEF RuntimesInv, RuntimesTypeOK
<1>5. RuntimesTypeOK'
    BY <1>1, <1>2, NewOpTyped DEF RuntimesInv, RuntimesTypeOK
<1>6. OwnersExact'
  <2>1. owners \in [Ops -> SUBSET Pointers] /\ owners' \in [Ops -> SUBSET Pointers]
      BY <1>1, <1>2 DEF RuntimesInv, OwnersExact, Pointers
  <2>2. \A r, p \in Ops :
           /\ FutureOf(p) \in owners'[r] <=> FutureOf(p) \in owners[r] \/ (p = o /\ r = rt)
           /\ TaskOf(p) \in owners'[r] <=> TaskOf(p) \in owners[r] \/ (p = o /\ r = rt)
      BY <1>1, <1>2, <2>1, PointersApart
  <2>3. \A r \in Ops, t \in Sessions : SessionOf(t) \in owners'[r] <=> SessionOf(t) \in owners[r]
      BY <1>1, <1>2, <2>1, PointersApart
  <2>4. \A r, p \in Ops :
           /\ FutureOf(p) \in owners'[r] <=>
                  (/\ ops[p] # Nil /\ ops[p].runtime = r
                   /\ ops[p].held = "yes" \/ ops[p].task = "pending")'
           /\ TaskOf(p) \in owners'[r] <=> Running(p, "connect")' /\ ops'[p].runtime = r
      BY <1>1, <1>2, <1>4, <2>2, NewOpTyped DEF RuntimesInv, OwnersExact, Running
  <2> QED
      BY <1>1, <2>1, <2>3, <2>4 DEF RuntimesInv, OwnersExact, Pointers
<1>7. Made'
    BY <1>1, <1>2, <1>4, NewOpTyped DEF RuntimesInv, RuntimesTypeOK, Made
<1>8. (\A r \in Alive : cache[threads[r]] = r)'
  <2>1. /\ cache' = [cache EXCEPT ![n] = rt] /\ cache \in [ThreadCounts -> Ops \cup {Nil}]
        /\ threads' = [threads EXCEPT ![rt] = n] /\ threads \in [Ops -> ThreadCounts]
        /\ \A r \in Ops : r # rt => owners'[r] = owners[r]
        /\ \A r \in Ops : owners[r] # {} => cache[threads[r]] = r
      BY <1>1, <1>2 DEF RuntimesInv, RuntimesTypeOK, OwnersExact, Alive
  <2> QED
      BY <1>2, <2>1, NilApart DEF Alive
<1>9. TaskNeverCancelled'
    BY <1>2, <1>4, NewOpTyped DEF RuntimesInv, TaskNeverCancelled
<1> QED
    BY <1>5, <1>6, <1>7, <1>8, <1>9 DEF RuntimesInv

(* A close or a request shares the runtime of its session.                  *)
LEMMA StartStep ==
    ASSUME RuntimesInv, NEW o \in Ops, NEW s \in Sessions, NEW kind \in {"close", "request"},
           StartOnSession(o, kind, s)
    PROVE RuntimesInv'
<1> DEFINE rt == connected[s]
<1>1. /\ ops[o] = Nil /\ rt # Nil
      /\ owners' = [owners EXCEPT ![rt] = @ \cup {FutureOf(o)}]
      /\ ops' = [ops EXCEPT ![o] = NewOp(kind, s, rt)]
      /\ cache' = cache /\ threads' = threads /\ connected' = connected
    BY DEF StartOnSession, Fresh
<1>2. rt \in Ops /\ SessionOf(s) \in owners[rt] /\ ops[rt] # Nil
    BY <1>1 DEF RuntimesInv, RuntimesTypeOK, OwnersExact, Made
<1>3. connected[s] = rt
    OBVIOUS
<1> HIDE DEF rt
<1>4. /\ ops'[o] = NewOp(kind, s, rt)
      /\ \A p \in Ops : p # o => ops'[p] = ops[p]
    BY <1>1 DEF RuntimesInv, RuntimesTypeOK
<1>5. RuntimesTypeOK'
    BY <1>1, <1>2, NewOpTyped DEF RuntimesInv, RuntimesTypeOK
<1>6. OwnersExact'
  <2>1. owners \in [Ops -> SUBSET Pointers] /\ owners' \in [Ops -> SUBSET Pointers]
      BY <1>1, <1>2 DEF RuntimesInv, OwnersExact, Pointers
  <2>2. \A r, p \in Ops :
           /\ FutureOf(p) \in owners'[r] <=> FutureOf(p) \in owners[r] \/ (p = o /\ r = rt)
           /\ TaskOf(p) \in owners'[r] <=> TaskOf(p) \in owners[r]
      BY <1>1, <1>2, <2>1, PointersApart
  <2>3. \A r \in Ops, t \in Sessions : SessionOf(t) \in owners'[r] <=> SessionOf(t) \in owners[r]
      BY <1>1, <1>2, <2>1, PointersApart
  <2>4. \A r, p \in Ops :
           /\ FutureOf(p) \in owners'[r] <=>
                  (/\ ops[p] # Nil /\ ops[p].runtime = r
                   /\ ops[p].held = "yes" \/ ops[p].task = "pending")'
           /\ TaskOf(p) \in owners'[r] <=> Running(p, "connect")' /\ ops'[p].runtime = r
      BY <1>1, <1>2, <1>4, <2>2, NewOpTyped DEF RuntimesInv, OwnersExact, Running
  <2> QED
      BY <1>1, <2>1, <2>3, <2>4 DEF RuntimesInv, OwnersExact, Pointers
<1>7. Made'
    BY <1>1, <1>2, <1>4, NewOpTyped DEF RuntimesInv, RuntimesTypeOK, Made
<1>8. (\A r \in Alive : cache[threads[r]] = r)'
    BY <1>1, <1>2 DEF RuntimesInv, RuntimesTypeOK, OwnersExact, Alive
<1>9. TaskNeverCancelled'
    BY <1>2, <1>4, NewOpTyped DEF RuntimesInv, TaskNeverCancelled
<1> QED
    BY <1>5, <1>6, <1>7, <1>8, <1>9 DEF RuntimesInv

(* The pointers that are left when the task of o ends, and the sessions     *)
(* that keep one.                                                           *)
AfterTask(o, own) ==
    /\ own \in [Ops -> SUBSET Pointers]
    /\ \A r, p \in Ops :
          /\ FutureOf(p) \in own[r] <=>
                FutureOf(p) \in owners[r] /\ (p = o => ops[o].held = "yes")
          /\ TaskOf(p) \in own[r] <=> TaskOf(p) \in owners[r] /\ p # o
    /\ \A r \in Ops : own[r] # {} => owners[r] # {}

Keeping(own, conn) ==
    /\ \A r \in Ops, s \in Sessions : SessionOf(s) \in own[r] <=> conn[s] = r
    /\ conn \in [Sessions -> Ops \cup {Nil}]
    /\ \A s \in Sessions : conn[s] # Nil => ops[conn[s]] # Nil

(* A task that ends gives up its pointers and cuts no other task off.       *)
LEMMA FinishStep ==
    ASSUME RuntimesInv, NEW o \in Ops, ops[o] # Nil, ops[o].task = "pending",
           NEW own, AfterTask(o, own), Keeping(own, connected'), Finish(o, own)
    PROVE RuntimesInv'
<1> USE DEF AfterTask, Keeping
<1>0. PICK done : done = WithDone(o)
    BY Zenon
<1>1. /\ done \in [Ops -> Op \cup {Nil}] /\ done[o] \in Op
      /\ done[o].kind = ops[o].kind /\ done[o].session = ops[o].session
      /\ done[o].runtime = ops[o].runtime /\ done[o].held = ops[o].held
      /\ done[o].task = "done" /\ done[o] # Nil
      /\ \A p \in Ops : p # o => done[p] = ops[p]
    BY <1>0, Done
<1>2. owners' = own /\ ops' = Shutdown(done, own) /\ cache' = cache /\ threads' = threads
    BY <1>0 DEF Finish, WithDone
<1>3. \A p \in Ops : done[p] # Nil /\ done[p].task = "pending" => own[done[p].runtime] # {}
  <2> SUFFICES ASSUME NEW p \in Ops, done[p] # Nil, done[p].task = "pending"
               PROVE own[done[p].runtime] # {}
      OBVIOUS
  <2>1. p # o /\ done[p] = ops[p] /\ ops[p].runtime \in Ops
      BY <1>1, OpsTyped
  <2>2. FutureOf(p) \in owners[ops[p].runtime]
      BY <2>1 DEF RuntimesInv, OwnersExact
  <2> QED
      BY <2>1, <2>2
<1>4. ops' = done
  <2>1. done \in [Ops -> Op \cup {Nil}]
      BY <1>1
  <2>2. Shutdown(done, own) = done
      BY <1>3, <2>1 DEF Shutdown
  <2> QED
      BY <1>2, <2>2
<1>5. RuntimesTypeOK'
    BY <1>1, <1>2, <1>4 DEF RuntimesInv, RuntimesTypeOK
<1>6. OwnersExact'
  <2>1. \A r, p \in Ops :
           /\ FutureOf(p) \in owners'[r] <=>
                  (/\ ops[p] # Nil /\ ops[p].runtime = r
                   /\ ops[p].held = "yes" \/ ops[p].task = "pending")'
           /\ TaskOf(p) \in owners'[r] <=> Running(p, "connect")' /\ ops'[p].runtime = r
      BY <1>1, <1>2, <1>4 DEF RuntimesInv, OwnersExact, Running
  <2> QED
      BY <1>2, <2>1 DEF OwnersExact, Pointers
<1>7. Made'
  <2>1. \A p \in Ops : /\ ops'[p] # Nil <=> ops[p] # Nil
                       /\ ops[p] # Nil => ops'[p].runtime = ops[p].runtime
      BY <1>1, <1>2, <1>4
  <2>2. /\ cache \in [ThreadCounts -> Ops \cup {Nil}] /\ cache' = cache /\ threads' = threads
        /\ \A p \in Ops : ops[p] # Nil => ops[p].runtime \in Ops
      BY <1>1, <1>2, <1>4, OpsTyped DEF RuntimesInv, RuntimesTypeOK
  <2>3. /\ connected' \in [Sessions -> Ops \cup {Nil}]
        /\ \A t \in Sessions : connected'[t] # Nil => ops[connected'[t]] # Nil
      BY <1>1, <1>2, <1>4, Owned
  <2> QED
      BY <2>1, <2>2, <2>3 DEF RuntimesInv, Made
<1>8. (\A r \in Alive : cache[threads[r]] = r)'
    BY <1>2 DEF RuntimesInv, Alive
<1>9. TaskNeverCancelled'
    BY <1>1, <1>4 DEF RuntimesInv, TaskNeverCancelled
<1> QED
    BY <1>5, <1>6, <1>7, <1>8, <1>9 DEF RuntimesInv

(* What is left of the pointers once the task of o has dropped its own.     *)
LEMMA Dropped ==
    ASSUME NEW o \in Ops, ops[o].held \in {"yes", "no"}, NEW own \in [Ops -> SUBSET Pointers],
           NEW left, left = Release(own, DroppedByTask(o))
    PROVE /\ left \in [Ops -> SUBSET Pointers]
          /\ \A r, p \in Ops :
                /\ FutureOf(p) \in left[r] <=>
                      FutureOf(p) \in own[r] /\ (p = o => ops[o].held = "yes")
                /\ TaskOf(p) \in left[r] <=> TaskOf(p) \in own[r] /\ p # o
          /\ \A r \in Ops, s \in Sessions : SessionOf(s) \in left[r] <=> SessionOf(s) \in own[r]
          /\ \A r \in Ops : left[r] \subseteq own[r]
BY PointersApart DEF Release, DroppedByTask

(* ... when the session keeps its connection: a request, a failed connect.  *)
LEMMA TaskEndStep ==
    ASSUME RuntimesInv, NEW o \in Ops, ops[o] # Nil, ops[o].task = "pending",
           connected' = connected, Finish(o, Release(owners, DroppedByTask(o)))
    PROVE RuntimesInv'
<1>1. PICK left : left = Release(owners, DroppedByTask(o))
    BY Zenon
<1>2. ops[o].held \in {"yes", "no"} /\ owners \in [Ops -> SUBSET Pointers]
    BY OpsTyped DEF RuntimesInv, OwnersExact
<1>3. /\ left \in [Ops -> SUBSET Pointers]
      /\ \A r, p \in Ops :
            /\ FutureOf(p) \in left[r] <=>
                  FutureOf(p) \in owners[r] /\ (p = o => ops[o].held = "yes")
            /\ TaskOf(p) \in left[r] <=> TaskOf(p) \in owners[r] /\ p # o
      /\ \A r \in Ops, s \in Sessions : SessionOf(s) \in left[r] <=> SessionOf(s) \in owners[r]
      /\ \A r \in Ops : left[r] # {} => owners[r] # {}
    BY <1>1, <1>2, Dropped
<1>4. AfterTask(o, left)
    BY <1>3 DEF AfterTask
<1>5. Keeping(left, connected')
    BY <1>3, Owned DEF Keeping
<1>6. Finish(o, left)
    BY <1>1
<1> QED
    BY <1>4, <1>5, <1>6, FinishStep

(* A connect task hands its pointer to the session it connects.             *)
LEMMA ConnectFutStep ==
    ASSUME RuntimesInv, NEW o \in Ops, connect_fut(o)
    PROVE RuntimesInv'
<1>1. ops[o] # Nil /\ ops[o].task = "pending"
    BY DEF connect_fut, Running
<1>2. CASE connected' = connected /\ Finish(o, Release(owners, DroppedByTask(o)))
    BY <1>1, <1>2, TaskEndStep
<1>3. ASSUME NEW s, s = ops[o].session, NEW rt, rt = ops[o].runtime,
             connected[s] = Nil, connected' = [connected EXCEPT ![s] = rt],
             Finish(o, Release([owners EXCEPT ![rt] = @ \cup {SessionOf(s)}], DroppedByTask(o)))
      PROVE RuntimesInv'
  <2>1. PICK own : own = [owners EXCEPT ![rt] = @ \cup {SessionOf(s)}]
      BY Zenon
  <2>2. PICK left : left = Release(own, DroppedByTask(o))
      BY Zenon
  <2>3. s \in Sessions /\ rt \in Ops /\ ops[o].held \in {"yes", "no"}
      BY <1>1, <1>3, OpsTyped
  <2>4. owners \in [Ops -> SUBSET Pointers] /\ connected \in [Sessions -> Ops \cup {Nil}]
      BY DEF RuntimesInv, RuntimesTypeOK, OwnersExact
  <2>5. own \in [Ops -> SUBSET Pointers]
      BY <2>1, <2>3, <2>4 DEF Pointers
  <2>6. /\ \A r, p \in Ops : /\ FutureOf(p) \in own[r] <=> FutureOf(p) \in owners[r]
                             /\ TaskOf(p) \in own[r] <=> TaskOf(p) \in owners[r]
        /\ \A r \in Ops, t \in Sessions :
              SessionOf(t) \in own[r] <=> SessionOf(t) \in owners[r] \/ (t = s /\ r = rt)
      BY <2>1, <2>3, <2>4, PointersApart
  <2>7. /\ left \in [Ops -> SUBSET Pointers]
        /\ \A r, p \in Ops :
              /\ FutureOf(p) \in left[r] <=>
                    FutureOf(p) \in own[r] /\ (p = o => ops[o].held = "yes")
              /\ TaskOf(p) \in left[r] <=> TaskOf(p) \in own[r] /\ p # o
        /\ \A r \in Ops, t \in Sessions : SessionOf(t) \in left[r] <=> SessionOf(t) \in own[r]
        /\ \A r \in Ops : left[r] \subseteq own[r]
      BY <2>2, <2>3, <2>5, Dropped
  <2>8. \A r \in Ops : left[r] # {} => owners[r] # {}
    <3>1. FutureOf(o) \in owners[rt]
        BY <1>1, <1>3, <2>3, Owned
    <3> QED
        BY <2>1, <2>3, <2>4, <2>7, <3>1
  <2>9. Keeping(left, connected')
    <3>1. connected' = [connected EXCEPT ![s] = rt] /\ ops[rt] # Nil
        BY <1>1, <1>3 DEF RuntimesInv, Made
    <3>2. \A r \in Ops, t \in Sessions :
             SessionOf(t) \in left[r] <=> connected[t] = r \/ (t = s /\ r = rt)
        BY <2>6, <2>7, Owned
    <3>3. \A t \in Sessions : connected'[t] = IF t = s THEN rt ELSE connected[t]
        BY <2>3, <2>4, <3>1
    <3>4. connected' \in [Sessions -> Ops \cup {Nil}]
        BY <2>3, <2>4, <3>1
    <3>5. \A r \in Ops, t \in Sessions : SessionOf(t) \in left[r] <=> connected'[t] = r
        BY <1>3, <3>2, <3>3, NilApart
    <3>6. \A t \in Sessions : connected'[t] # Nil => ops[connected'[t]] # Nil
        BY <3>1, <3>3, Owned
    <3> QED
        BY <3>4, <3>5, <3>6 DEF Keeping
  <2>10. Finish(o, left)
      BY <1>3, <2>1, <2>2
  <2>11. AfterTask(o, left)
      BY <2>6, <2>7, <2>8 DEF AfterTask
  <2> QED
      BY <1>1, <2>9, <2>10, <2>11, FinishStep
<1> QED
    BY <1>2, <1>3 DEF connect_fut

(* A close task drops the session's pointer too.                            *)
LEMMA CloseFutStep ==
    ASSUME RuntimesInv, NEW o \in Ops, close_fut(o)
    PROVE RuntimesInv'
<1>1. PICK s : s = ops[o].session
    BY Zenon
<1>2. PICK left : left = Release(owners, DroppedByTask(o) \cup {SessionOf(s)})
    BY Zenon
<1>3. /\ ops[o] # Nil /\ ops[o].task = "pending"
      /\ connected' = [connected EXCEPT ![s] = Nil] /\ Finish(o, left)
    BY <1>1, <1>2 DEF close_fut, Running
<1>4. s \in Sessions /\ ops[o].held \in {"yes", "no"}
    BY <1>1, <1>3, OpsTyped
<1>5. owners \in [Ops -> SUBSET Pointers] /\ connected \in [Sessions -> Ops \cup {Nil}]
    BY DEF RuntimesInv, RuntimesTypeOK, OwnersExact
<1>6. /\ left \in [Ops -> SUBSET Pointers]
      /\ \A r, p \in Ops :
            /\ FutureOf(p) \in left[r] <=>
                  FutureOf(p) \in owners[r] /\ (p = o => ops[o].held = "yes")
            /\ TaskOf(p) \in left[r] <=> TaskOf(p) \in owners[r] /\ p # o
      /\ \A r \in Ops, t \in Sessions :
            SessionOf(t) \in left[r] <=> SessionOf(t) \in owners[r] /\ t # s
      /\ \A r \in Ops : left[r] # {} => owners[r] # {}
  <2>1. PICK drained : drained = Release(owners, DroppedByTask(o))
      BY Zenon
  <2>2. /\ drained \in [Ops -> SUBSET Pointers]
        /\ \A r, p \in Ops :
              /\ FutureOf(p) \in drained[r] <=>
                    FutureOf(p) \in owners[r] /\ (p = o => ops[o].held = "yes")
              /\ TaskOf(p) \in drained[r] <=> TaskOf(p) \in owners[r] /\ p # o
        /\ \A r \in Ops, t \in Sessions :
              SessionOf(t) \in drained[r] <=> SessionOf(t) \in owners[r]
        /\ \A r \in Ops : drained[r] \subseteq owners[r]
      BY <1>4, <1>5, <2>1, Dropped
  <2>3. left = [r \in Ops |-> drained[r] \ {SessionOf(s)}]
    <3>1. PICK gone : gone = DroppedByTask(o)
        BY Zenon
    <3>2. /\ drained = [r \in Ops |-> owners[r] \ gone]
          /\ left = [r \in Ops |-> owners[r] \ (gone \cup {SessionOf(s)})]
        BY <1>2, <2>1, <3>1, Zenon DEF Release
    <3>3. \A r \in Ops : owners[r] \ (gone \cup {SessionOf(s)}) = drained[r] \ {SessionOf(s)}
        BY <3>2
    <3> QED
        BY <3>2, <3>3
  <2> QED
      BY <1>4, <2>2, <2>3, PointersApart
<1>7. Keeping(left, connected')
  <2>1. connected' \in [Sessions -> Ops \cup {Nil}]
      BY <1>3, <1>4, <1>5
  <2>2. \A t \in Sessions : connected'[t] = IF t = s THEN Nil ELSE connected[t]
      BY <1>3, <1>4, <1>5
  <2> QED
      BY <1>6, <2>1, <2>2, Owned, NilApart DEF Keeping
<1>8. AfterTask(o, left)
    BY <1>6 DEF AfterTask
<1> QED
    BY <1>3, <1>7, <1>8, FinishStep, Zenon

(* Freeing a future drops its pointer only once its task has ended.         *)
LEMMA FutureFreeStep ==
    ASSUME RuntimesInv, NEW o \in Ops, future_free(o)
    PROVE RuntimesInv'
<1>1. PICK own : own = Release(owners, DroppedByFree(o))
    BY Zenon
<1>2. PICK freed : freed = WithFreed(o)
    BY Zenon
<1>3. /\ ops[o] # Nil /\ ops[o].held = "yes" /\ owners' = own /\ ops' = Shutdown(freed, own)
      /\ cache' = cache /\ threads' = threads /\ connected' = connected
    BY <1>1, <1>2 DEF future_free, WithFreed
<1>4. /\ freed \in [Ops -> Op \cup {Nil}] /\ freed[o] \in Op
      /\ freed[o].kind = ops[o].kind /\ freed[o].runtime = ops[o].runtime
      /\ freed[o].task = ops[o].task /\ freed[o].held = "no" /\ freed[o] # Nil
      /\ \A p \in Ops : p # o => freed[p] = ops[p]
    BY <1>2, <1>3, Freed
<1>5. owners \in [Ops -> SUBSET Pointers]
    BY DEF RuntimesInv, OwnersExact
<1>6. /\ own \in [Ops -> SUBSET Pointers]
      /\ \A r, p \in Ops :
            /\ FutureOf(p) \in own[r] <=>
                  FutureOf(p) \in owners[r] /\ (p = o => ops[o].task = "pending")
            /\ TaskOf(p) \in own[r] <=> TaskOf(p) \in owners[r]
      /\ \A r \in Ops, s \in Sessions : SessionOf(s) \in own[r] <=> SessionOf(s) \in owners[r]
      /\ \A r \in Ops : own[r] # {} => owners[r] # {}
    BY <1>1, <1>5, PointersApart DEF Release, DroppedByFree
<1>7. \A p \in Ops : freed[p] # Nil /\ freed[p].task = "pending" => own[freed[p].runtime] # {}
  <2> SUFFICES ASSUME NEW p \in Ops, freed[p] # Nil, freed[p].task = "pending"
               PROVE own[freed[p].runtime] # {}
      OBVIOUS
  <2>1. /\ ops[p] # Nil /\ ops[p].task = "pending" /\ freed[p].runtime = ops[p].runtime
        /\ ops[p].runtime \in Ops
      BY <1>3, <1>4, OpsTyped
  <2>2. FutureOf(p) \in owners[ops[p].runtime]
      BY <2>1 DEF RuntimesInv, OwnersExact
  <2> QED
      BY <1>6, <2>1, <2>2
<1>8. ops' = freed
  <2>1. Shutdown(freed, own) = freed
      BY <1>4, <1>7 DEF Shutdown
  <2> QED
      BY <1>3, <2>1
<1>9. RuntimesTypeOK'
    BY <1>3, <1>4, <1>8 DEF RuntimesInv, RuntimesTypeOK
<1>10. OwnersExact'
  <2>1. \A r, p \in Ops :
           /\ FutureOf(p) \in owners'[r] <=>
                  (/\ ops[p] # Nil /\ ops[p].runtime = r
                   /\ ops[p].held = "yes" \/ ops[p].task = "pending")'
           /\ TaskOf(p) \in owners'[r] <=> Running(p, "connect")' /\ ops'[p].runtime = r
    <3> SUFFICES ASSUME NEW r \in Ops, NEW p \in Ops
                 PROVE  /\ FutureOf(p) \in own[r] <=>
                               /\ freed[p] # Nil /\ freed[p].runtime = r
                               /\ freed[p].held = "yes" \/ freed[p].task = "pending"
                        /\ TaskOf(p) \in own[r] <=>
                               /\ freed[p] # Nil /\ freed[p].kind = "connect"
                               /\ freed[p].task = "pending" /\ freed[p].runtime = r
        BY <1>3, <1>8 DEF Running
    <3>1. CASE p # o
        BY <1>4, <1>6, <3>1, Owned
    <3>2. CASE p = o
        BY <1>3, <1>4, <1>6, <3>2, Owned
    <3> QED
        BY <3>1, <3>2
  <2> QED
      BY <1>3, <1>6, <2>1, Owned DEF OwnersExact
<1>11. Made'
  <2>1. \A p \in Ops : /\ ops'[p] # Nil <=> ops[p] # Nil
                       /\ ops[p] # Nil => ops'[p].runtime = ops[p].runtime
      BY <1>3, <1>4, <1>8
  <2>2. /\ cache \in [ThreadCounts -> Ops \cup {Nil}] /\ cache' = cache /\ threads' = threads
        /\ \A p \in Ops : ops[p] # Nil => ops[p].runtime \in Ops
      BY <1>3, <1>4, <1>8, OpsTyped DEF RuntimesInv, RuntimesTypeOK
  <2>3. /\ connected' \in [Sessions -> Ops \cup {Nil}]
        /\ \A t \in Sessions : connected'[t] # Nil => ops[connected'[t]] # Nil
      BY <1>3, <1>4, <1>8, Owned
  <2> QED
      BY <2>1, <2>2, <2>3 DEF RuntimesInv, Made
<1>12. (\A r \in Alive : cache[threads[r]] = r)'
    BY <1>3, <1>6 DEF RuntimesInv, Alive
<1>13. TaskNeverCancelled'
    BY <1>3, <1>4, <1>8 DEF RuntimesInv, TaskNeverCancelled
<1> QED
    BY <1>9, <1>10, <1>11, <1>12, <1>13 DEF RuntimesInv

LEMMA RuntimesBegin == RuntimesInit => RuntimesInv
<1> SUFFICES ASSUME RuntimesInit PROVE RuntimesInv
    OBVIOUS
<1>1. RuntimesTypeOK /\ Made
    BY NilApart, RuntimesAssumption DEF RuntimesInit, RuntimesTypeOK, Made
<1>2. OwnersExact
    BY NilApart DEF RuntimesInit, OwnersExact, Running
<1>3. Alive = {} /\ TaskNeverCancelled
    BY NilApart DEF RuntimesInit, Alive, TaskNeverCancelled
<1> QED
    BY <1>1, <1>2, <1>3 DEF RuntimesInv

(* The steps that do not involve the cluster, and those of other parts.     *)
LEMMA RuntimesStep ==
    ASSUME RuntimesInv, RuntimesNext \/ UNCHANGED runtimeVars
    PROVE RuntimesInv'
<1>1. CASE UNCHANGED runtimeVars
  <2>1. /\ cache' = cache /\ threads' = threads /\ owners' = owners
        /\ connected' = connected /\ ops' = ops
      BY <1>1 DEF runtimeVars
  <2>2. RuntimesTypeOK'
      BY <2>1 DEF RuntimesInv, RuntimesTypeOK
  <2>3. OwnersExact'
    <3>1. \A p \in Ops, k \in {"connect", "close", "request"} : Running(p, k)' <=> Running(p, k)
        BY <2>1 DEF Running
    <3> QED
        BY <2>1, <3>1 DEF RuntimesInv, OwnersExact
  <2>4. Made'
      BY <2>1 DEF RuntimesInv, Made
  <2>5. (\A r \in Alive : cache[threads[r]] = r)'
      BY <2>1 DEF RuntimesInv, Alive
  <2>6. TaskNeverCancelled'
      BY <2>1 DEF RuntimesInv, TaskNeverCancelled
  <2> QED
      BY <2>2, <2>3, <2>4, <2>5, <2>6 DEF RuntimesInv
<1>2. CASE RuntimesNext
  <2>1. PICK o \in Ops :
           \/ \E s \in Sessions : StartOnSession(o, "close", s) \/ StartOnSession(o, "request", s)
           \/ connect_fut(o) \/ close_fut(o) \/ request_fut(o) \/ future_free(o)
      BY <1>2 DEF RuntimesNext
  <2>2. CASE \E s \in Sessions : StartOnSession(o, "close", s) \/ StartOnSession(o, "request", s)
      BY <2>2, StartStep
  <2>3. CASE connect_fut(o)
      BY <2>3, ConnectFutStep
  <2>4. CASE close_fut(o)
      BY <2>4, CloseFutStep
  <2>5. CASE request_fut(o)
      BY <2>5, TaskEndStep DEF request_fut, Running
  <2>6. CASE future_free(o)
      BY <2>6, FutureFreeStep
  <2> QED
      BY <2>1, <2>2, <2>3, <2>4, <2>5, <2>6
<1> QED
    BY <1>1, <1>2

LEMMA OneRuntime == RuntimesInv => OneRuntimePerCount
BY DEF RuntimesInv, OneRuntimePerCount

(* A shutdown changes no operation's runtime.                               *)
LEMMA ShutdownKeeps ==
    ASSUME NEW all, all \in [Ops -> Op \cup {Nil}], NEW own, NEW p \in Ops, all[p] # Nil
    PROVE /\ Shutdown(all, own)[p] # Nil
          /\ Shutdown(all, own)[p].runtime = all[p].runtime
<1>1. PICK x : x = all[p]
    BY Zenon
<1>2. PICK y : y = [x EXCEPT !.task = "cancelled"]
    BY Zenon
<1>3. x \in Op
    BY <1>1
<1>5. y \in Op /\ y.runtime = x.runtime
    BY <1>2, <1>3, OpUpdates, Zenon
<1>4. Shutdown(all, own)[p] =
          IF x # Nil /\ x.task = "pending" /\ own[x.runtime] = {} THEN y ELSE x
    BY <1>1, <1>2, Zenon DEF Shutdown
<1> QED
    BY <1>1, <1>3, <1>4, <1>5, NilApart

LEMMA RuntimesKeep ==
    ASSUME RuntimesInv, NEW p \in Ops, ops[p] # Nil, RuntimesNext \/ UNCHANGED runtimeVars
    PROVE /\ ops'[p] # Nil /\ ops'[p].runtime = ops[p].runtime
          /\ threads' = threads
<1>1. CASE UNCHANGED runtimeVars
    BY <1>1 DEF runtimeVars
<1>2. ASSUME NEW o \in Ops, NEW s \in Sessions, NEW kind, StartOnSession(o, kind, s)
      PROVE ops'[p] = ops[p] /\ threads' = threads
    BY <1>2 DEF StartOnSession, Fresh, RuntimesInv, RuntimesTypeOK
<1>3. ASSUME NEW o \in Ops, NEW own, ops[o] # Nil, Finish(o, own)
      PROVE ops'[p] # Nil /\ ops'[p].runtime = ops[p].runtime /\ threads' = threads
  <2>1. PICK done : done = WithDone(o)
      BY Zenon
  <2>2. done \in [Ops -> Op \cup {Nil}] /\ done[p] # Nil /\ done[p].runtime = ops[p].runtime
      BY <1>3, <2>1, Done
  <2>3. ops' = Shutdown(done, own) /\ threads' = threads
      BY <1>3, <2>1 DEF Finish, WithDone
  <2> QED
      BY <2>2, <2>3, ShutdownKeeps
<1>4. ASSUME NEW o \in Ops, future_free(o)
      PROVE ops'[p] # Nil /\ ops'[p].runtime = ops[p].runtime /\ threads' = threads
  <2>1. PICK freed : freed = WithFreed(o)
      BY Zenon
  <2>2. freed \in [Ops -> Op \cup {Nil}] /\ freed[p] # Nil /\ freed[p].runtime = ops[p].runtime
      BY <1>4, <2>1, Freed DEF future_free
  <2>3. PICK own : ops' = Shutdown(freed, own) /\ threads' = threads
      BY <1>4, <2>1 DEF future_free, WithFreed
  <2> QED
      BY <2>2, <2>3, ShutdownKeeps
<1>5. ASSUME NEW o \in Ops, connect_fut(o) \/ close_fut(o) \/ request_fut(o)
      PROVE ops[o] # Nil /\ \E own : Finish(o, own)
    BY <1>5 DEF connect_fut, close_fut, request_fut, Running
<1> QED
    BY <1>1, <1>2, <1>3, <1>4, <1>5 DEF RuntimesNext

LEMMA ConnectKeeps ==
    ASSUME RuntimesInv, NEW o \in Ops, NEW s \in Sessions, NEW n \in ThreadCounts,
           connect(o, s, n), NEW p \in Ops
    PROVE /\ ops[o] = Nil /\ ops'[o] # Nil
          /\ threads'[ops'[o].runtime] = n
          /\ ops[p] # Nil => /\ ops'[p] = ops[p]
                             /\ threads'[ops'[p].runtime] = threads[ops[p].runtime]
<1>1. PICK rt : rt = cached_or_new_runtime(cache[n], o)
    BY Zenon
<1>2. /\ ops[o] = Nil
      /\ threads' = [threads EXCEPT ![rt] = n]
      /\ ops' = [ops EXCEPT ![o] = NewOp("connect", s, rt)]
    BY <1>1 DEF connect, Fresh
<1>3. rt = o \/ (rt = cache[n] /\ cache[n] # Nil)
    BY <1>1 DEF cached_or_new_runtime
<1>4. rt \in Ops /\ (rt # o => threads[rt] = n)
    BY <1>3 DEF RuntimesInv, RuntimesTypeOK, Made
<1>5. ops[p] # Nil => ops[p].runtime \in Ops /\ ops[p].runtime # o
  <2>1. ops[p] # Nil => ops[p] \in Op
      BY DEF RuntimesInv, RuntimesTypeOK
  <2>2. ops[p] # Nil => ops[ops[p].runtime] # Nil
      BY DEF RuntimesInv, Made
  <2> QED
      BY <1>2, <2>1, <2>2, OpFields
<1>6. ops \in [Ops -> Op \cup {Nil}] /\ threads \in [Ops -> ThreadCounts]
    BY DEF RuntimesInv, RuntimesTypeOK
<1>7. NewOp("connect", s, rt) # Nil /\ NewOp("connect", s, rt).runtime = rt
    BY <1>4, NewOpTyped
<1> QED
    BY <1>2, <1>4, <1>5, <1>6, <1>7
=============================================================================
