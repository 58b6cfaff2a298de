-------------------------- MODULE SharedStateProofs --------------------------
(***************************************************************************)
(* Two places where threads race on a shared word or cell: the cell in     *)
(* which a statement keeps its execution profile, for any settings, names, *)
(* sessions and executions, and the last timestamp of a UUID generator,    *)
(* for any number of threads, calls and clock changes.                     *)
(***************************************************************************)
EXTENDS ExecProfiles, UuidGen, TLAPS

(* A setting that is set or unset leaves a well-formed profile that is as    *)
(* asked.                                                                   *)
LEMMA SettingEdited ==
    ASSUME NEW p \in Profile, NEW k \in Settings, AsAsked(p)
    PROVE /\ \A v \in Values :
               LET q == [stored |-> [p.stored EXCEPT ![k] = v],
                         overridden |-> p.overridden \cup {k},
                         wanted |-> [p.wanted EXCEPT ![k] = v]]
               IN  q \in Profile /\ AsAsked(q)
          /\ LET q == [stored |-> p.stored, overridden |-> p.overridden \ {k},
                       wanted |-> [p.wanted EXCEPT ![k] = Inherit]]
             IN  q \in Profile /\ AsAsked(q)
    BY DEF Profile, AsAsked

(* A new profile object asks for nothing.                                   *)
LEMMA NewProfile == New \in Profile /\ AsAsked(New)
    BY ProfilesAssumption DEF New, Profile, AsAsked

(* Building a profile that is as asked gives every setting its value.       *)
LEMMA ProfileBuilt ==
    ASSUME NEW p \in Profile, AsAsked(p), default \in [Settings -> Values]
    PROVE build(p) \in Built /\ BuiltAsAsked(build(p), default)
<1>1. build(p) \in Built
    BY ProfilesAssumption DEF build, Built, Profile
<1>2. ASSUME NEW k \in Settings, k \in p.overridden
      PROVE build(p).value[k] = p.wanted[k] /\ p.wanted[k] # Inherit
    BY <1>2, ProfilesAssumption DEF build, Profile, AsAsked
<1>3. ASSUME NEW k \in Settings, k \notin p.overridden
      PROVE /\ build(p).value[k] = IF k = Consistency THEN DEFAULT_CONSISTENCY ELSE default[k]
            /\ p.wanted[k] = Inherit
    BY <1>3 DEF build, AsAsked
<1>4. build(p).wanted = p.wanted
    BY DEF build
<1> QED
    BY <1>1, <1>2, <1>3, <1>4 DEF BuiltAsAsked

(* The fields of an execution and of a cell.                                *)
LEMMA Fields ==
    /\ \A x \in Execution :
          /\ x.pc \in {"read", "write", "done", "invalid"}
          /\ x.conn \in Connection /\ x.cell \in 0 .. MaxCells
          /\ x.used \in Built \cup {None} /\ x.session \in Sessions
    /\ \A c \in Cell : c.name \in Names /\ c.handle \in Built \cup {None}
    /\ \A x \in Connection : /\ x.default \in [Settings -> Values]
                             /\ x.profiles \in [Names -> Built \cup {None}]
    BY DEF Execution, Cell, Connection

(* A lookup that ends sets two fields of the execution.                     *)
LEMMA Updates ==
    ASSUME NEW x \in Execution, NEW next \in {"read", "write", "done", "invalid"},
           NEW handle \in Built \cup {None}
    PROVE [x EXCEPT !.pc = next, !.used = handle] \in Execution
    BY DEF Execution

(* Filling a cell sets its handle.                                          *)
LEMMA CellFilled ==
    ASSUME NEW c \in Cell, NEW handle \in Built \cup {None}
    PROVE [c EXCEPT !.handle = handle] \in Cell
    BY DEF Cell

(* Configuration calls reach neither the sessions nor the executions.       *)
LEMMA SessionsKept ==
    ASSUME ProfilesInv, UNCHANGED <<conn, cell, stmt, exec>>
    PROVE SettingsAsAsked' /\ CellsInUse'
<1>1. SettingsAsAsked'
    BY Zenon DEF ProfilesInv, SettingsAsAsked, BuiltAsAsked
<1>2. \A e \in Execs : InUse(e)' = InUse(e)
    BY Zenon DEF InUse
<1>3. \A c \in Cells, e \in Execs : FilledBy(c, e)' = FilledBy(c, e)
    BY Zenon DEF FilledBy
<1>4. CellsInUse'
    BY <1>2, <1>3, Zenon DEF ProfilesInv, CellsInUse
<1> QED
    BY <1>1, <1>4

(* Executing a statement reaches neither the objects nor the connections.   *)
LEMMA ObjectsKept ==
    ASSUME ProfilesInv, UNCHANGED <<profile, attached, conn>>
    PROVE SettingsAsAsked' /\ ObjectsAsAsked'
<1>1. SettingsAsAsked'
    BY Zenon DEF ProfilesInv, SettingsAsAsked, BuiltAsAsked
<1>2. ObjectsAsAsked'
    BY Zenon DEF ProfilesInv, ObjectsAsAsked, AsAsked
<1> QED
    BY <1>1, <1>2

(* A profile object that is well formed and as asked may take the place of  *)
(* an object or of an attached copy.                                        *)
LEMMA ObjectReplaced ==
    ASSUME ProfilesInv, NEW n \in Names, NEW q \in Profile, AsAsked(q)
    PROVE /\ profile' = [profile EXCEPT ![n] = q] /\ attached' = attached =>
                /\ profile' \in [Names -> Profile]
                /\ ObjectsAsAsked'
          /\ attached' = [attached EXCEPT ![n] = q] /\ profile' = profile =>
                /\ attached' \in [Names -> Profile \cup {None}]
                /\ ObjectsAsAsked'
<1>1. profile \in [Names -> Profile] /\ attached \in [Names -> Profile \cup {None}]
    BY Zenon DEF ProfilesInv, ProfilesTypeOK
<1>2. \A m \in Names : AsAsked(profile[m]) /\ (attached[m] # None => AsAsked(attached[m]))
    BY Zenon DEF ProfilesInv, ObjectsAsAsked
<1>3. ASSUME profile' = [profile EXCEPT ![n] = q], attached' = attached
      PROVE profile' \in [Names -> Profile] /\ ObjectsAsAsked'
  <2>1. profile' \in [Names -> Profile]
        /\ \A m \in Names : profile'[m] = IF m = n THEN q ELSE profile[m]
      BY <1>1, <1>3
  <2> QED
      BY <2>1, <1>2, <1>3, Zenon DEF ObjectsAsAsked, AsAsked
<1>4. ASSUME attached' = [attached EXCEPT ![n] = q], profile' = profile
      PROVE attached' \in [Names -> Profile \cup {None}] /\ ObjectsAsAsked'
  <2>1. attached' \in [Names -> Profile \cup {None}]
        /\ \A m \in Names : attached'[m] = IF m = n THEN q ELSE attached[m]
      BY <1>1, <1>4
  <2> QED
      BY <2>1, <1>2, <1>4, Zenon DEF ObjectsAsAsked, AsAsked
<1> QED
    BY <1>3, <1>4, Zenon

(* Every configuration call keeps the invariant.                            *)
LEMMA ConfigStep ==
    ASSUME ProfilesInv,
           \/ \E k \in Settings, v \in Values : SetDefault(k, v)
           \/ \E n \in Names :
                 \/ Attach(n)
                 \/ \E k \in Settings : UnsetSetting(n, k) \/ \E v \in Values : SetSetting(n, k, v)
    PROVE ProfilesInv'
<1>1. edits \in 0 .. MaxEdits /\ MaxEdits \in Nat /\ (Edit => edits' \in 0 .. MaxEdits)
    BY ProfilesAssumption DEF ProfilesInv, ProfilesTypeOK, Edit
<1>2. Edit => SettingsAsAsked' /\ CellsInUse'
    BY SessionsKept, Zenon DEF Edit
<1>3. /\ default \in [Settings -> Values]
      /\ profile \in [Names -> Profile]
      /\ attached \in [Names -> Profile \cup {None}]
      /\ \A n \in Names : AsAsked(profile[n])
    BY Zenon DEF ProfilesInv, ProfilesTypeOK, ObjectsAsAsked
<1>4. ASSUME Edit, ObjectsAsAsked', default' \in [Settings -> Values],
             profile' \in [Names -> Profile], attached' \in [Names -> Profile \cup {None}]
      PROVE ProfilesInv'
    BY <1>1, <1>2, <1>4, Zenon DEF ProfilesInv, ProfilesTypeOK, Edit
<1>5. ASSUME NEW k \in Settings, NEW v \in Values, SetDefault(k, v)
      PROVE ProfilesInv'
  <2>1. default' \in [Settings -> Values]
      BY <1>3, <1>5 DEF SetDefault
  <2>2. ObjectsAsAsked'
      BY <1>5, Zenon DEF SetDefault, ProfilesInv, ObjectsAsAsked
  <2> QED
      BY <1>3, <1>4, <1>5, <2>1, <2>2, Zenon DEF SetDefault
<1>6. ASSUME NEW n \in Names, Attach(n) PROVE ProfilesInv'
    BY <1>3, <1>4, <1>6, ObjectReplaced, Zenon DEF Attach
<1>7. ASSUME NEW n \in Names, NEW k \in Settings, UnsetSetting(n, k)
      PROVE ProfilesInv'
  <2> DEFINE q == [stored |-> profile[n].stored, overridden |-> profile[n].overridden \ {k},
                   wanted |-> [profile[n].wanted EXCEPT ![k] = Inherit]]
  <2>1. q \in Profile /\ AsAsked(q)
      BY <1>3, SettingEdited, Zenon
  <2>2. profile' = [profile EXCEPT ![n] = q]
      BY <1>7 DEF UnsetSetting
  <2> HIDE DEF q
  <2> QED
      BY <1>3, <1>4, <1>7, <2>1, <2>2, ObjectReplaced, Zenon DEF UnsetSetting
<1>8. ASSUME NEW n \in Names, NEW k \in Settings, NEW v \in Values, SetSetting(n, k, v)
      PROVE ProfilesInv'
  <2> DEFINE q == [stored |-> [profile[n].stored EXCEPT ![k] = v],
                   overridden |-> profile[n].overridden \cup {k},
                   wanted |-> [profile[n].wanted EXCEPT ![k] = v]]
  <2>1. q \in Profile /\ AsAsked(q)
      BY <1>3, SettingEdited, Zenon
  <2>2. profile' = [profile EXCEPT ![n] = q]
      BY <1>8 DEF SetSetting
  <2> HIDE DEF q
  <2> QED
      BY <1>3, <1>4, <1>8, <2>1, <2>2, ObjectReplaced, Zenon DEF SetSetting
<1> QED
    BY <1>5, <1>6, <1>7, <1>8, Zenon

(* A session that connects takes every attached profile as asked.           *)
LEMMA ConnectStep ==
    ASSUME ProfilesInv, NEW s \in Sessions, Connect(s)
    PROVE ProfilesInv'
<1> DEFINE taken == [n \in Names |-> IF attached[n] = None THEN None ELSE build(attached[n])]
           new == [default |-> default, profiles |-> taken]
<1>1. /\ default \in [Settings -> Values]
      /\ attached \in [Names -> Profile \cup {None}]
      /\ conn \in [Sessions -> Connection \cup {None}]
      /\ \A n \in Names : attached[n] # None => AsAsked(attached[n])
    BY Zenon DEF ProfilesInv, ProfilesTypeOK, ObjectsAsAsked
<1>2. \A n \in Names : attached[n] # None => attached[n] \in Profile
    BY <1>1
<1>3. \A n \in Names : attached[n] # None => build(attached[n]) \in Built
    BY <1>1, <1>2, ProfileBuilt, Zenon
<1>4. taken \in [Names -> Built \cup {None}]
    BY <1>3
<1>5. new \in Connection
    BY <1>1, <1>4 DEF Connection
<1>6. conn' = [conn EXCEPT ![s] = new]
    BY <1>1 DEF Connect
<1>7. conn' \in [Sessions -> Connection \cup {None}]
      /\ \A t \in Sessions : conn'[t] = IF t = s THEN new ELSE conn[t]
    BY <1>1, <1>5, <1>6
<1>8. SettingsAsAsked'
  <2> SUFFICES ASSUME NEW t \in Sessions, NEW n \in Names, conn'[t] # None,
                      conn'[t].profiles[n] # None
               PROVE BuiltAsAsked(conn'[t].profiles[n], conn'[t].default)
      BY Zenon DEF SettingsAsAsked, BuiltAsAsked
  <2>1. CASE t = s
    <3>1. conn'[t] = new /\ new.profiles = taken /\ new.default = default
        BY <1>7, <2>1
    <3>2. attached[n] # None /\ taken[n] = build(attached[n])
        BY <3>1
    <3>3. attached[n] \in Profile /\ AsAsked(attached[n])
        BY <1>1, <1>2, <3>2, Zenon
    <3> HIDE DEF new, taken
    <3> QED
        BY <1>1, <3>1, <3>2, <3>3, ProfileBuilt, Zenon
  <2>2. CASE t # s
    <3>1. conn'[t] = conn[t]
        BY <1>7, <2>2, Zenon
    <3> QED
        BY <3>1, Zenon DEF ProfilesInv, SettingsAsAsked
  <2> QED
      BY <2>1, <2>2
<1>9. ObjectsAsAsked'
    BY Zenon DEF ProfilesInv, ObjectsAsAsked, Connect
<1>10. CellsInUse'
    BY Zenon DEF ProfilesInv, CellsInUse, InUse, FilledBy, Connect
<1> HIDE DEF taken, new
<1> QED
    BY <1>7, <1>8, <1>9, <1>10, Zenon DEF ProfilesInv, ProfilesTypeOK, Connect

-----------------------------------------------------------------------------
(* What the invariant says of one execution and its cell.                   *)
LEMMA OfExecution ==
    ASSUME ProfilesInv, NEW e \in Execs, exec[e] # None
    PROVE /\ exec[e] \in Execution /\ InUse(e)
          /\ exec[e].cell # 0 =>
                /\ exec[e].cell \in Cells
                /\ cell[exec[e].cell] # None /\ cell[exec[e].cell] \in Cell
<1>1. exec \in [Execs -> Execution \cup {None}] /\ cell \in [Cells -> Cell \cup {None}]
    BY Zenon DEF ProfilesInv, ProfilesTypeOK
<1>2. exec[e] \in Execution
    BY <1>1
<1>3. InUse(e)
    BY Zenon DEF ProfilesInv, CellsInUse
<1>4. PICK x \in 0 .. MaxCells : x = exec[e].cell
    BY <1>2, Fields, Zenon
<1>5. x # 0 => x \in Cells
    BY <1>4, ProfilesAssumption DEF Cells
<1>6. x # 0 => cell[x] # None
    BY <1>3, <1>4, Zenon DEF InUse
<1>7. x # 0 => cell[x] \in Cell
    BY <1>1, <1>5, <1>6
<1> QED
    BY <1>2, <1>3, <1>4, <1>5, <1>6, <1>7, Zenon

(* Every call that names a profile, or none, keeps the invariant.           *)
LEMMA SetProfileStep ==
    ASSUME ProfilesInv, NEW n \in Names \cup {None}, SetExecutionProfile(n)
    PROVE ProfilesInv'
<1>1. SettingsAsAsked' /\ ObjectsAsAsked'
    BY ObjectsKept, Zenon DEF SetExecutionProfile
<1>2. cell \in [Cells -> Cell \cup {None}]
    BY Zenon DEF ProfilesInv, ProfilesTypeOK
<1>3. CASE stmt' = 0 /\ UNCHANGED cell
  <2>1. CellsInUse'
      BY <1>3, Zenon DEF ProfilesInv, CellsInUse, InUse, FilledBy, SetExecutionProfile
  <2>2. stmt' \in 0 .. MaxCells
      BY <1>3, ProfilesAssumption
  <2> QED
      BY <1>1, <1>3, <2>1, <2>2, Zenon DEF ProfilesInv, ProfilesTypeOK, SetExecutionProfile
<1>4. ASSUME n \in Names, NEW c \in Cells, cell[c] = None,
             cell' = [cell EXCEPT ![c] = [name |-> n, handle |-> None]], stmt' = c
      PROVE ProfilesInv'
  <2> DEFINE new == [name |-> n, handle |-> None]
  <2>1. new \in Cell /\ new.handle = None
      BY <1>4 DEF Cell
  <2>2. new # None
      BY <2>1, NoneAssumption
  <2> HIDE DEF new
  <2>3. /\ cell' \in [Cells -> Cell \cup {None}]
        /\ cell'[c] = new /\ \A d \in Cells : d # c => cell'[d] = cell[d]
      BY <1>2, <1>4, <2>1 DEF new
  <2>4. c \in 0 .. MaxCells /\ c # 0
      BY ProfilesAssumption DEF Cells
  <2>5. \A e \in Execs : exec[e] # None => InUse(e)'
    <3> SUFFICES ASSUME NEW e \in Execs, exec[e] # None PROVE InUse(e)'
        BY Zenon
    <3>1. exec' = exec
        BY Zenon DEF SetExecutionProfile
    <3>2. exec[e].cell # 0 => exec[e].cell \in Cells /\ exec[e].cell # c
        BY <1>4, OfExecution, Zenon
    <3>3. exec[e].cell # 0 => cell'[exec[e].cell] = cell[exec[e].cell]
        BY <2>3, <3>2, Zenon
    <3> QED
        BY <3>1, <3>3, OfExecution, Zenon DEF InUse
  <2>6. ASSUME NEW d \in Cells, cell'[d] # None, cell'[d].handle # None
        PROVE \E e \in Execs : FilledBy(d, e)'
    <3>1. d # c /\ cell'[d] = cell[d]
        BY <2>1, <2>3, <2>6, Zenon
    <3>2. PICK e \in Execs : FilledBy(d, e)
        BY <2>6, <3>1, Zenon DEF ProfilesInv, CellsInUse
    <3> QED
        BY <3>1, <3>2, Zenon DEF FilledBy, SetExecutionProfile
  <2>7. CellsInUse'
    <3>1. exec' = exec
        BY Zenon DEF SetExecutionProfile
    <3> QED
        BY <1>4, <2>2, <2>3, <2>5, <2>6, <3>1, Zenon DEF CellsInUse
  <2> QED
      BY <1>1, <1>4, <2>3, <2>4, <2>7, Zenon DEF ProfilesInv, ProfilesTypeOK, SetExecutionProfile
<1> QED
    BY <1>3, <1>4, Zenon DEF SetExecutionProfile

(* A new execution holds the cell of the statement.                         *)
LEMMA ExecuteStep ==
    ASSUME ProfilesInv, NEW e \in Execs, NEW s \in Sessions, Execute(e, s)
    PROVE ProfilesInv'
<1> DEFINE x == [pc |-> IF stmt = 0 THEN "done" ELSE "read", session |-> s,
                 conn |-> conn[s], cell |-> stmt, used |-> None]
<1>1. SettingsAsAsked' /\ ObjectsAsAsked'
    BY ObjectsKept, Zenon DEF Execute
<1>2. /\ conn \in [Sessions -> Connection \cup {None}] /\ stmt \in 0 .. MaxCells
      /\ exec \in [Execs -> Execution \cup {None}]
    BY Zenon DEF ProfilesInv, ProfilesTypeOK
<1>3. conn[s] \in Connection /\ exec[e] = None
    BY <1>2 DEF Execute
<1>4. x \in Execution
    BY <1>2, <1>3 DEF Execution
<1>5. /\ x.cell = stmt /\ (x.pc = "done" \/ x.pc = "read") /\ (x.pc = "done" <=> stmt = 0)
      /\ exec' = [exec EXCEPT ![e] = x]
    BY DEF Execute
<1> HIDE DEF x
<1>6. /\ exec' \in [Execs -> Execution \cup {None}] /\ exec'[e] = x
      /\ \A f \in Execs : f # e => exec'[f] = exec[f]
    BY <1>2, <1>4, <1>5
<1>7. UNCHANGED <<cell, stmt>>
    BY Zenon DEF Execute
<1>8. stmt # 0 => cell[stmt] # None
    BY Zenon DEF ProfilesInv, CellsInUse
<1>9. ASSUME NEW f \in Execs, exec'[f] # None PROVE InUse(f)'
  <2>1. CASE f = e
    <3>1. exec'[f] = x
        BY <1>6, <2>1, Zenon
    <3>2. x.pc = "done" => x.cell = 0
        BY <1>5, Zenon
    <3>3. x.pc \in {"read", "write"} => x.cell # 0
        BY <1>5
    <3> QED
        BY <1>5, <1>7, <1>8, <3>1, <3>2, <3>3, Zenon DEF InUse
  <2>2. CASE f # e
    <3>1. exec'[f] = exec[f]
        BY <1>6, <2>2, Zenon
    <3> QED
        BY <1>7, <1>9, <3>1, OfExecution, Zenon DEF InUse
  <2> QED
      BY <2>1, <2>2
<1>10. ASSUME NEW d \in Cells, cell[d] # None, cell[d].handle # None
       PROVE \E f \in Execs : FilledBy(d, f)'
  <2>1. PICK f \in Execs : FilledBy(d, f)
      BY <1>10, Zenon DEF ProfilesInv, CellsInUse
  <2>2. f # e
      BY <1>3, <2>1, Zenon DEF FilledBy
  <2>3. exec'[f] = exec[f]
      BY <1>6, <2>2, Zenon
  <2> QED
      BY <1>7, <2>1, <2>3, Zenon DEF FilledBy
<1>11. CellsInUse'
    BY <1>7, <1>8, <1>9, <1>10, Zenon DEF CellsInUse
<1> QED
    BY <1>1, <1>6, <1>7, <1>11, Zenon DEF ProfilesInv, ProfilesTypeOK, Execute

(* A cell that is filled is never changed again.                            *)
FilledKept == \A c \in Cells : cell[c] # None /\ cell[c].handle # None => cell'[c] = cell[c]

(* The cell an execution looks at is either left alone, or was empty and is *)
(* filled with what the execution's connection has under its name.          *)
Filling(e, handle) ==
    /\ handle # None /\ cell[exec[e].cell].handle = None
    /\ handle = exec[e].conn.profiles[cell[exec[e].cell].name]
    /\ cell' = [cell EXCEPT ![exec[e].cell].handle = handle]
Lookup(e, next, handle) ==
    /\ Use(e, next, handle)
    /\ next # "read"
    /\ cell' = cell \/ Filling(e, handle)
    /\ next = "done" => handle # None /\ handle = cell'[exec[e].cell].handle
    /\ UNCHANGED <<default, profile, attached, conn, stmt, edits>>

(* A lookup changes what its execution uses and where it is, no more.       *)
LEMMA Used ==
    ASSUME ProfilesInv, NEW e \in Execs, exec[e] # None,
           NEW next \in {"read", "write", "done", "invalid"},
           NEW handle \in Built \cup {None}, Use(e, next, handle)
    PROVE /\ exec' \in [Execs -> Execution \cup {None}] /\ exec'[e] # None
          /\ exec'[e].cell = exec[e].cell /\ exec'[e].conn = exec[e].conn
          /\ exec'[e].pc = next /\ exec'[e].used = handle
          /\ \A f \in Execs : f # e => exec'[f] = exec[f]
<1> DEFINE x == [exec[e] EXCEPT !.pc = next, !.used = handle]
<1>1. exec \in [Execs -> Execution \cup {None}] /\ exec[e] \in Execution
    BY OfExecution, Zenon DEF ProfilesInv, ProfilesTypeOK
<1>2. x \in Execution
    BY <1>1, Updates, Zenon
<1>3. x.cell = exec[e].cell /\ x.conn = exec[e].conn /\ x.pc = next /\ x.used = handle
    BY <1>1 DEF Execution
<1>4. exec' = [exec EXCEPT ![e] = x]
    BY <1>1 DEF Use
<1>5. x # None
    BY <1>2, NoneAssumption
<1> HIDE DEF x
<1>6. /\ exec' \in [Execs -> Execution \cup {None}] /\ exec'[e] = x
      /\ \A f \in Execs : f # e => exec'[f] = exec[f]
    BY <1>1, <1>2, <1>4
<1> QED
    BY <1>3, <1>5, <1>6, Zenon

(* A cell that is filled keeps its name, and no other cell changes.         *)
LEMMA Filled ==
    ASSUME ProfilesInv, NEW c \in Cells, cell[c] # None, NEW handle \in Built \cup {None},
           cell' = [cell EXCEPT ![c].handle = handle]
    PROVE /\ cell' \in [Cells -> Cell \cup {None}] /\ cell'[c] # None
          /\ cell'[c].handle = handle /\ cell'[c].name = cell[c].name
          /\ \A d \in Cells : d # c => cell'[d] = cell[d]
<1> DEFINE x == [cell[c] EXCEPT !.handle = handle]
<1>1. cell \in [Cells -> Cell \cup {None}]
    BY Zenon DEF ProfilesInv, ProfilesTypeOK
<1>2. cell[c] \in Cell
    BY <1>1
<1>3. x \in Cell
    BY <1>2, CellFilled, Zenon
<1>4. x.handle = handle /\ x.name = cell[c].name
    BY <1>2 DEF Cell
<1>5. x # None
    BY <1>3, NoneAssumption
<1>6. cell' = [cell EXCEPT ![c] = x]
    BY <1>1
<1> HIDE DEF x
<1>7. /\ cell' \in [Cells -> Cell \cup {None}] /\ cell'[c] = x
      /\ \A d \in Cells : d # c => cell'[d] = cell[d]
    BY <1>1, <1>3, <1>6
<1> QED
    BY <1>4, <1>5, <1>7, Zenon

(* No lookup changes a cell that is filled, and a cell it fills holds what  *)
(* its connection has.                                                      *)
LEMMA LookupStep ==
    ASSUME ProfilesInv, NEW e \in Execs, exec[e] # None, exec[e].pc \in {"read", "write"},
           NEW next \in {"read", "write", "done", "invalid"},
           NEW handle \in Built \cup {None}, Lookup(e, next, handle)
    PROVE ProfilesInv' /\ FilledKept
<1>1. SettingsAsAsked' /\ ObjectsAsAsked'
    BY ObjectsKept, Zenon DEF Lookup
<1>2. PICK c \in Cells : c = exec[e].cell /\ c # 0 /\ cell[c] # None /\ cell[c] \in Cell
    BY OfExecution, Zenon DEF InUse
<1>3. /\ exec' \in [Execs -> Execution \cup {None}] /\ exec'[e] # None
      /\ exec'[e].cell = c /\ exec'[e].conn = exec[e].conn
      /\ exec'[e].pc = next /\ exec'[e].used = handle
      /\ \A f \in Execs : f # e => exec'[f] = exec[f]
    BY <1>2, Used, Zenon DEF Lookup
<1>4. /\ cell' \in [Cells -> Cell \cup {None}]
      /\ \A d \in Cells : cell[d] # None => cell'[d] # None /\ cell'[d].name = cell[d].name
      /\ \A d \in Cells : cell[d] # None /\ cell[d].handle # None => cell'[d] = cell[d]
      /\ \A d \in Cells : cell'[d] = cell[d] \/ (d = c /\ Filling(e, handle) /\ cell'[d].handle = handle)
  <2>1. CASE cell' = cell
      BY <2>1, Zenon DEF ProfilesInv, ProfilesTypeOK
  <2>2. CASE Filling(e, handle)
    <3>1. /\ cell' \in [Cells -> Cell \cup {None}] /\ cell'[c] # None
          /\ cell'[c].handle = handle /\ cell'[c].name = cell[c].name
          /\ \A d \in Cells : d # c => cell'[d] = cell[d]
        BY <1>2, <2>2, Filled, Zenon DEF Filling
    <3>2. cell[c].handle = None
        BY <1>2, <2>2, Zenon DEF Filling
    <3> QED
        BY <2>2, <3>1, <3>2, Zenon
  <2> QED
      BY <2>1, <2>2, Zenon DEF Lookup
<1>5. ASSUME NEW f \in Execs, exec'[f] # None PROVE InUse(f)'
  <2>1. CASE f = e
    <3>1. next = "done" => handle # None /\ handle = cell'[c].handle
        BY <1>2, Zenon DEF Lookup
    <3> QED
        BY <1>2, <1>3, <1>4, <2>1, <3>1, Zenon DEF InUse
  <2>2. CASE f # e
    <3>1. exec'[f] = exec[f] /\ exec[f] # None
        BY <1>3, <1>5, <2>2, Zenon
    <3>2. /\ InUse(f)
          /\ exec[f].cell # 0 => exec[f].cell \in Cells /\ cell[exec[f].cell] # None
        BY <3>1, OfExecution, Zenon
    <3>3. exec[f].cell # 0 => cell'[exec[f].cell] # None
        BY <1>4, <3>2, Zenon
    <3>4. exec[f].pc = "done" /\ exec[f].cell # 0 =>
              exec[f].used # None /\ exec[f].used = cell'[exec[f].cell].handle
      <4>1. exec[f].pc = "done" /\ exec[f].cell # 0 =>
                exec[f].used # None /\ exec[f].used = cell[exec[f].cell].handle
          BY <3>2, Zenon DEF InUse
      <4> QED
          BY <1>4, <3>2, <4>1, Zenon
    <3> QED
        BY <3>1, <3>2, <3>3, <3>4, Zenon DEF InUse
  <2> QED
      BY <2>1, <2>2
<1>6. ASSUME NEW d \in Cells, cell'[d] # None, cell'[d].handle # None
      PROVE \E f \in Execs : FilledBy(d, f)'
  <2>1. CASE cell'[d] = cell[d]
    <3>1. PICK f \in Execs : FilledBy(d, f)
        BY <1>6, <2>1, Zenon DEF ProfilesInv, CellsInUse
    <3>2. exec'[f] # None /\ exec'[f].cell = d /\ exec'[f].conn = exec[f].conn
        BY <1>2, <1>3, <3>1, Zenon DEF FilledBy
    <3> QED
        BY <2>1, <3>1, <3>2, Zenon DEF FilledBy
  <2>2. CASE d = c /\ Filling(e, handle) /\ cell'[d].handle = handle
    <3>1. cell'[d].name = cell[c].name /\ handle = exec[e].conn.profiles[cell[c].name]
        BY <1>2, <1>4, <2>2, Zenon DEF Filling
    <3> QED
        BY <1>3, <2>2, <3>1, Zenon DEF FilledBy
  <2> QED
      BY <1>4, <2>1, <2>2, Zenon
<1>7. stmt' # 0 => cell'[stmt'] # None
  <2>1. stmt' = stmt /\ stmt \in 0 .. MaxCells /\ (stmt # 0 => cell[stmt] # None)
      BY Zenon DEF Lookup, ProfilesInv, ProfilesTypeOK, CellsInUse
  <2>2. stmt # 0 => stmt \in Cells
      BY <2>1, ProfilesAssumption DEF Cells
  <2> QED
      BY <1>4, <2>1, <2>2, Zenon
<1>8. CellsInUse'
    BY <1>5, <1>6, <1>7, Zenon DEF CellsInUse
<1> QED
    BY <1>1, <1>3, <1>4, <1>8, Zenon DEF ProfilesInv, ProfilesTypeOK, Lookup, FilledKept

(* Both looks at a cell, under the read and under the write lock, are such  *)
(* lookups.                                                                 *)
LEMMA LooksStep ==
    ASSUME ProfilesInv, NEW e \in Execs, ReadCell(e) \/ ResolveCell(e)
    PROVE ProfilesInv' /\ FilledKept
<1>1. exec[e] # None /\ exec[e].pc \in {"read", "write"}
    BY DEF ReadCell, ResolveCell
<1>2. PICK c \in Cells : c = exec[e].cell /\ cell[c] # None /\ cell[c] \in Cell
    BY <1>1, OfExecution, Zenon DEF InUse
<1>3. cell \in [Cells -> Cell \cup {None}]
    BY Zenon DEF ProfilesInv, ProfilesTypeOK
<1>4. PICK handle \in Built \cup {None} : handle = cell[c].handle
    BY <1>2, Fields, Zenon
<1>5. PICK found \in Built \cup {None} : found = exec[e].conn.profiles[cell[c].name]
  <2>1. exec[e].conn.profiles \in [Names -> Built \cup {None}] /\ cell[c].name \in Names
      BY <1>1, <1>2, OfExecution, Fields, Zenon
  <2> QED
      BY <2>1
<1>6. CASE ReadCell(e)
  <2>1. CASE handle = None
    <3>1. Lookup(e, "write", handle)
        BY <1>2, <1>4, <1>6, <2>1, Zenon DEF ReadCell, Lookup
    <3> QED
        BY <1>1, <3>1, LookupStep
  <2>2. CASE handle # None
    <3>1. Lookup(e, "done", handle)
        BY <1>2, <1>4, <1>6, <2>2, Zenon DEF ReadCell, Lookup
    <3> QED
        BY <1>1, <3>1, LookupStep
  <2> QED
      BY <2>1, <2>2
<1>7. CASE ResolveCell(e)
  <2>1. CASE handle # None
    <3>1. Lookup(e, "done", handle)
        BY <1>2, <1>4, <1>7, <2>1, Zenon DEF ResolveCell, Lookup
    <3> QED
        BY <1>1, <3>1, LookupStep
  <2>2. CASE handle = None /\ found # None
    <3>1. Use(e, "done", found) /\ cell' = [cell EXCEPT ![c].handle = found]
        BY <1>2, <1>4, <1>5, <1>7, <2>2, Zenon DEF ResolveCell
    <3>2. Filling(e, found)
        BY <1>2, <1>4, <1>5, <2>2, <3>1, Zenon DEF Filling
    <3>3. cell'[c].handle = found
        BY <1>2, <3>1, Filled, Zenon
    <3>4. UNCHANGED <<default, profile, attached, conn, stmt, edits>>
        BY <1>7, Zenon DEF ResolveCell
    <3>5. Lookup(e, "done", found)
        BY <1>2, <2>2, <3>1, <3>2, <3>3, <3>4, Zenon DEF Lookup
    <3> QED
        BY <1>1, <3>5, LookupStep
  <2>3. CASE handle = None /\ found = None
    <3>1. Lookup(e, "invalid", None)
        BY <1>2, <1>4, <1>5, <1>7, <2>3, Zenon DEF ResolveCell, Lookup
    <3> QED
        BY <1>1, <3>1, LookupStep
  <2> QED
      BY <2>1, <2>2, <2>3, Zenon
<1> QED
    BY <1>6, <1>7, Zenon

(* Every step keeps the invariant, and the cells that are filled.           *)
LEMMA ProfilesStep ==
    ASSUME ProfilesInv, [ProfilesNext]_profileVars
    PROVE ProfilesInv' /\ FilledKept
<1>1. CASE UNCHANGED profileVars
  <2>1. UNCHANGED <<default, profile, attached, conn, cell, stmt, exec, edits>>
      BY <1>1, Zenon DEF profileVars
  <2>2. SettingsAsAsked' /\ CellsInUse' /\ ObjectsAsAsked'
      BY <2>1, SessionsKept, ObjectsKept, Zenon
  <2> QED
      BY <2>1, <2>2, Zenon DEF ProfilesInv, ProfilesTypeOK, FilledKept
<1>2. ASSUME \/ \E k \in Settings, v \in Values : SetDefault(k, v)
             \/ \E n \in Names :
                   \/ Attach(n)
                   \/ \E k \in Settings : UnsetSetting(n, k) \/ \E v \in Values : SetSetting(n, k, v)
      PROVE ProfilesInv' /\ FilledKept
  <2>1. ProfilesInv'
      BY <1>2, ConfigStep, Zenon
  <2>2. cell' = cell
      BY <1>2, Zenon DEF SetDefault, Attach, UnsetSetting, SetSetting, Edit
  <2> QED
      BY <2>1, <2>2, Zenon DEF FilledKept
<1>3. ASSUME NEW s \in Sessions, Connect(s) PROVE ProfilesInv' /\ FilledKept
    BY <1>3, ConnectStep, Zenon DEF Connect, FilledKept
<1>4. ASSUME NEW n \in Names \cup {None}, SetExecutionProfile(n) PROVE ProfilesInv' /\ FilledKept
  <2>1. ProfilesInv'
      BY <1>4, SetProfileStep, Zenon
  <2>2. cell' = cell \/ \E c \in Cells : \E new :
                            cell[c] = None /\ cell' = [cell EXCEPT ![c] = new]
      BY <1>4, Zenon DEF SetExecutionProfile
  <2>3. cell \in [Cells -> Cell \cup {None}]
      BY Zenon DEF ProfilesInv, ProfilesTypeOK
  <2>4. FilledKept
      BY <2>2, <2>3, Zenon DEF FilledKept
  <2> QED
      BY <2>1, <2>4
<1>5. ASSUME NEW e \in Execs, NEW s \in Sessions, Execute(e, s) PROVE ProfilesInv' /\ FilledKept
    BY <1>5, ExecuteStep, Zenon DEF Execute, FilledKept
<1>6. ASSUME NEW e \in Execs, ReadCell(e) \/ ResolveCell(e) PROVE ProfilesInv' /\ FilledKept
    BY <1>6, LooksStep, Zenon
<1> QED
    BY <1>1, <1>2, <1>3, <1>4, <1>5, <1>6, Zenon DEF ProfilesNext

(* The flags and values of profile objects say what was asked of them        *)
(* (the setters of exec_profile.rs), and what is in a cell was found by an   *)
(* execution that shares it (get_or_resolve_profile_handle).                 *)
THEOREM ProfilesInvariant == ProfilesSpec => []ProfilesInv
<1>1. ProfilesInit => ProfilesInv
  <2> SUFFICES ASSUME ProfilesInit PROVE ProfilesInv
      OBVIOUS
  <2>1. ProfilesTypeOK
    <3>1. default \in [Settings -> Values] /\ stmt \in 0 .. MaxCells /\ edits \in 0 .. MaxEdits
        BY ProfilesAssumption DEF ProfilesInit
    <3>2. profile \in [Names -> Profile] /\ attached \in [Names -> Profile \cup {None}]
        BY NewProfile, Zenon DEF ProfilesInit
    <3>3. /\ conn \in [Sessions -> Connection \cup {None}]
          /\ cell \in [Cells -> Cell \cup {None}]
          /\ exec \in [Execs -> Execution \cup {None}]
        BY Zenon DEF ProfilesInit
    <3> QED
        BY <3>1, <3>2, <3>3, Zenon DEF ProfilesTypeOK
  <2>2. ObjectsAsAsked
    <3>1. \A n \in Names : profile[n] = New /\ attached[n] = None
        BY Zenon DEF ProfilesInit
    <3> QED
        BY <3>1, NewProfile, Zenon DEF ObjectsAsAsked
  <2>3. SettingsAsAsked /\ CellsInUse
      BY DEF ProfilesInit, SettingsAsAsked, CellsInUse
  <2> QED
      BY <2>1, <2>2, <2>3 DEF ProfilesInv
<1>2. ProfilesInv /\ [ProfilesNext]_profileVars => ProfilesInv'
    BY ProfilesStep
<1> QED
    BY <1>1, <1>2, PTL DEF ProfilesSpec

(* CassExecProfile::build gives a connected session's profiles the settings *)
(* that were asked for, and the cluster's for the others.                   *)
THEOREM ProfilesAsAsked == ProfilesSpec => []SettingsAsAsked
    BY ProfilesInvariant, PTL DEF ProfilesInv

(* However the lookups of its executions interleave, a statement runs with  *)
(* one profile until another is set.                                        *)
THEOREM OneProfile == ProfilesSpec => []OneProfilePerCell
<1>1. ProfilesInv => OneProfilePerCell
  <2> SUFFICES ASSUME ProfilesInv, NEW e \in Resolved, NEW f \in Resolved,
                      exec[e].cell = exec[f].cell
               PROVE exec[e].used = exec[f].used
      BY Zenon DEF OneProfilePerCell
  <2>1. /\ e \in Execs /\ exec[e] # None /\ exec[e].pc = "done" /\ exec[e].cell # 0
        /\ f \in Execs /\ exec[f] # None /\ exec[f].pc = "done" /\ exec[f].cell # 0
      BY DEF Resolved
  <2> QED
      BY <2>1, OfExecution, Zenon DEF InUse
<1> QED
    BY <1>1, ProfilesInvariant, PTL

(* The profile a statement's executions on one connection run with is the   *)
(* one that connection has under the statement's name.                      *)
THEOREM OwnProfileUsed == ProfilesSpec => []OwnProfileOnOneConnection
<1>1. ProfilesInv => OwnProfileOnOneConnection
  <2> SUFFICES ASSUME ProfilesInv, NEW e \in Resolved,
                      \A f \in Execs : exec[f] # None /\ exec[f].cell = exec[e].cell
                                          => exec[f].conn = exec[e].conn
               PROVE exec[e].used = OwnProfile(e)
      BY Zenon DEF OwnProfileOnOneConnection
  <2>1. e \in Execs /\ exec[e] # None /\ exec[e].pc = "done" /\ exec[e].cell # 0
      BY DEF Resolved
  <2>2. PICK c \in Cells : c = exec[e].cell /\ cell[c] # None
      BY <2>1, OfExecution, Zenon
  <2>3. exec[e].used # None /\ exec[e].used = cell[c].handle
      BY <2>1, <2>2, OfExecution, Zenon DEF InUse
  <2>4. PICK f \in Execs : FilledBy(c, f)
      BY <2>2, <2>3, Zenon DEF ProfilesInv, CellsInUse
  <2> QED
      BY <2>2, <2>3, <2>4, Zenon DEF FilledBy, OwnProfile
<1> QED
    BY <1>1, ProfilesInvariant, PTL

(* A cell that an execution has filled keeps its profile, whatever is       *)
(* configured, connected or executed after it: the second look under the    *)
(* write lock never replaces a handle.                                      *)
THEOREM CellsFilledOnce == ProfilesSpec => [][FilledKept]_profileVars
<1>1. ProfilesInv /\ [ProfilesNext]_profileVars => [FilledKept]_profileVars
    BY ProfilesStep
<1> QED
    BY <1>1, ProfilesInvariant, PTL DEF ProfilesSpec

-----------------------------------------------------------------------------
(* The generator of time UUIDs.                                             *)
USE UuidAssumption

(* Whatever timestamp above the word is given out, the invariant survives.  *)
LEMMA GiveOutStep ==
    ASSUME StampInv, NEW t \in Threads, pc[t] # "idle", NEW ts \in Nat, ts > last,
           GiveOut(t, ts)
    PROVE StampInv'
<1> DEFINE new == [thread |-> t, call |-> calls[t], ts |-> ts]
<1> USE DEF StampInv, GiveOut
<1>1. new \in Stamp /\ out' = out \cup {new} /\ last' = ts
    BY DEF TypeOK, Stamp
<1>2. TypeOK'
    BY <1>1 DEF TypeOK
<1>3. WordInv'
    BY <1>1 DEF TypeOK, WordInv, Stamp
<1>4. Unique'
    BY <1>1 DEF TypeOK, WordInv, Unique, Stamp
<1>5. RealTimeOrder'
    BY <1>1 DEF TypeOK, WordInv, RealTimeOrder, Stamp
<1> QED
    BY <1>2, <1>3, <1>4, <1>5

(* A step that gives nothing out keeps the invariant.                       *)
LEMMA QuietStep ==
    ASSUME StampInv, NEW t \in Threads, UNCHANGED <<last, out>>,
           \/ GenTime(t) \/ SampleClock(t) \/ Load(t)
           \/ pc[t] = "cas" /\ pc' = [pc EXCEPT ![t] = "clock"]
              /\ UNCHANGED <<clock, setBack, now, read, calls, start>>
    PROVE StampInv'
<1> USE DEF StampInv
<1>1. TypeOK'
  <2>1. CASE GenTime(t)
      BY <2>1 DEF TypeOK, GenTime
  <2>2. CASE SampleClock(t)
    <3>1. clock * Ticks \in Nat
        BY DEF TypeOK
    <3> QED
        BY <2>2, <3>1 DEF TypeOK, SampleClock, from_unix_timestamp
  <2>3. CASE Load(t)
    <3>1. Plan(now[t], last) \in {"clock", "cas", "add"}
        BY DEF Plan
    <3> QED
        BY <2>3, <3>1 DEF TypeOK, Load
  <2>4. CASE pc' = [pc EXCEPT ![t] = "clock"] /\ UNCHANGED <<clock, setBack, now, read, calls, start>>
      BY <2>4 DEF TypeOK
  <2> QED
      BY <2>1, <2>2, <2>3, <2>4
<1>2. WordInv' /\ Unique'
    BY DEF TypeOK, WordInv, Unique, Stamp, GenTime, SampleClock, Load, Plan
<1>3. RealTimeOrder'
    BY DEF TypeOK, WordInv, RealTimeOrder, Stamp, GenTime, SampleClock, Load
<1> QED
    BY <1>1, <1>2, <1>3

(* Every step keeps what is known of the timestamps.                        *)
LEMMA StampStep ==
    ASSUME StampInv, [Next]_vars
    PROVE StampInv'
<1>1. ASSUME NEW t \in Threads, GenTime(t) PROVE StampInv'
    BY <1>1, QuietStep, Zenon DEF GenTime
<1>2. ASSUME NEW t \in Threads, SampleClock(t) PROVE StampInv'
    BY <1>2, QuietStep, Zenon DEF SampleClock
<1>3. ASSUME NEW t \in Threads, Load(t) PROVE StampInv'
    BY <1>3, QuietStep, Zenon DEF Load
<1>4. ASSUME NEW t \in Threads, CompareExchange(t) PROVE StampInv'
  <2>1. CASE last = read[t] /\ GiveOut(t, Candidate(t))
    <3>1. Candidate(t) \in Nat /\ Candidate(t) > last
        BY <2>1 DEF Candidate, StampInv, TypeOK
    <3> QED
        BY <1>4, <2>1, <3>1, GiveOutStep DEF CompareExchange
  <2>2. CASE last # read[t]
      BY <1>4, <2>2, QuietStep DEF CompareExchange
  <2> QED
      BY <1>4, <2>1, <2>2 DEF CompareExchange
<1>5. ASSUME NEW t \in Threads, FetchAdd(t) PROVE StampInv'
  <2>1. last + 1 \in Nat /\ last + 1 > last
      BY DEF StampInv, TypeOK
  <2> QED
      BY <1>5, <2>1, GiveOutStep DEF FetchAdd
<1>6. CASE ClockChanges
  <2>1. setBack' \in BOOLEAN
      BY <1>6, Zenon DEF ClockChanges
  <2> QED
      BY <1>6, <2>1 DEF ClockChanges, StampInv, TypeOK, WordInv, Unique, RealTimeOrder
<1>7. CASE UNCHANGED vars
    BY <1>7 DEF vars, StampInv, TypeOK, WordInv, Unique, RealTimeOrder
<1> QED
    BY <1>1, <1>2, <1>3, <1>4, <1>5, <1>6, <1>7 DEF Next, Work, Finished

-----------------------------------------------------------------------------
(* A millisecond's first tick converts back to it, and nothing converts to  *)
(* a negative one.                                                          *)
LEMMA Milliseconds ==
    /\ \A n \in Nat : to_milliseconds(n) \in Nat
    /\ \A ms \in Nat : to_milliseconds(from_unix_timestamp(ms)) = ms
    /\ to_milliseconds(0) = 0
<1>1. \A n \in Nat : n \div Ticks \in Nat
    OBVIOUS
<1>2. ASSUME NEW ms \in Nat PROVE (ms * Ticks) \div Ticks = ms
  <2>1. \A q \in Nat, r \in Nat : q * Ticks + 0 = r => q = r \div Ticks
      OBVIOUS
  <2>2. ms * Ticks \in Nat
      OBVIOUS
  <2> QED
      BY <2>1, <2>2
<1>3. 0 \div Ticks = 0
    OBVIOUS
<1> QED
    BY <1>1, <1>2, <1>3, Zenon DEF to_milliseconds, from_unix_timestamp

(* Once a second thread has called or the clock was set back it stays so.   *)
LEMMA AloneBefore ==
    ASSUME TypeOK, [Next]_vars, Alone'
    PROVE Alone /\ clock <= clock'
<1>1. CASE ClockChanges
  <2>1. PICK c \in 1 .. MaxMs : clock' = c /\ setBack' = (setBack \/ c < clock)
      BY <1>1 DEF ClockChanges
  <2>2. ~setBack /\ ~(c < clock)
      BY <2>1, Zenon DEF Alone
  <2>3. clock <= clock'
      BY <2>1, <2>2 DEF TypeOK
  <2> QED
      BY <1>1, <2>2, <2>3, Zenon DEF Alone, ClockChanges
<1>2. CASE UNCHANGED <<clock, setBack, calls>>
    BY <1>2 DEF TypeOK, Alone
<1>3. ASSUME NEW t \in Threads, GenTime(t) PROVE Alone /\ clock <= clock'
  <2>1. clock <= clock' /\ ~setBack
      BY <1>3 DEF TypeOK, Alone, GenTime
  <2>2. \A u \in Threads : calls'[u] = 0 => calls[u] = 0
      BY <1>3 DEF TypeOK, GenTime
  <2> QED
      BY <2>1, <2>2, Zenon DEF Alone
<1> QED
    BY <1>1, <1>2, <1>3 DEF Next, vars, Work, SampleClock, Load, CompareExchange,
       GiveOut, FetchAdd, Finished

(* Every step keeps what is known of the clock.                             *)
LEMMA ClockStep ==
    ASSUME GenInv, [Next]_vars
    PROVE ClockInv' /\ NotAhead'
<1> USE DEF GenInv, StampInv
<1>1. ASSUME NEW t \in Threads, GenTime(t) PROVE ClockInv' /\ NotAhead'
    BY <1>1, AloneBefore, Milliseconds DEF TypeOK, ClockInv, NotAhead, GenTime
<1>2. ASSUME NEW t \in Threads, SampleClock(t) PROVE ClockInv' /\ NotAhead'
    BY <1>2, AloneBefore, Milliseconds DEF TypeOK, ClockInv, NotAhead, SampleClock
<1>3. ASSUME NEW t \in Threads, Load(t) PROVE ClockInv' /\ NotAhead'
    BY <1>3, AloneBefore, Milliseconds DEF TypeOK, ClockInv, NotAhead, Load, Plan
<1>4. ASSUME NEW t \in Threads, CompareExchange(t) PROVE ClockInv' /\ NotAhead'
  <2>1. CASE last = read[t] /\ GiveOut(t, Candidate(t))
    <3>1. Alone => to_milliseconds(Candidate(t)) <= clock
        BY <1>4, <2>1 DEF TypeOK, ClockInv, NotAhead, CompareExchange, Candidate
    <3>2. Alone => \A u \in Threads \ {t} : pc[u] = "idle"
        BY <1>4 DEF TypeOK, ClockInv, Alone, CompareExchange
    <3> QED
        BY <2>1, <3>1, <3>2, AloneBefore DEF TypeOK, ClockInv, NotAhead, GiveOut
  <2>2. CASE last # read[t]
      BY <1>4, <2>2, AloneBefore DEF TypeOK, ClockInv, NotAhead, CompareExchange
  <2> QED
      BY <1>4, <2>1, <2>2 DEF CompareExchange
<1>5. ASSUME NEW t \in Threads, FetchAdd(t) PROVE ClockInv' /\ NotAhead'
    BY <1>5, AloneBefore, Milliseconds DEF TypeOK, ClockInv, NotAhead, FetchAdd, GiveOut
<1>6. CASE ClockChanges
    BY <1>6, AloneBefore, Milliseconds DEF TypeOK, ClockInv, NotAhead, ClockChanges
<1>7. CASE UNCHANGED vars
    BY <1>7, AloneBefore DEF vars, ClockInv, NotAhead
<1> QED
    BY <1>1, <1>2, <1>3, <1>4, <1>5, <1>6, <1>7 DEF Next, Work, Finished

(* The word last_timestamp is never behind a timestamp given out nor behind  *)
(* what a thread that is about to exchange it has read.                      *)
THEOREM GeneratorInvariant == Spec => []GenInv
<1>1. Init => GenInv
  <2> SUFFICES ASSUME Init PROVE GenInv
      OBVIOUS
  <2>1. setBack \in BOOLEAN
      BY Zenon DEF Init
  <2>2. StampInv
      BY <2>1 DEF Init, StampInv, TypeOK, WordInv, Unique, RealTimeOrder
  <2>3. ClockInv /\ NotAhead
      BY Milliseconds DEF Init, ClockInv, NotAhead
  <2> QED
      BY <2>2, <2>3 DEF GenInv
<1>2. GenInv /\ [Next]_vars => GenInv'
    BY StampStep, ClockStep DEF GenInv
<1> QED
    BY <1>1, <1>2, PTL DEF Spec

(* No timestamp is given out twice by cass_uuid_gen_time.                   *)
THEOREM TimestampsUnique == Spec => []Unique
    BY GeneratorInvariant, PTL DEF GenInv, StampInv

(* A call that begins after another has ended gets a later timestamp.       *)
THEOREM TimestampsOrdered == Spec => []RealTimeOrder
    BY GeneratorInvariant, PTL DEF GenInv, StampInv

(* The timestamps of a lone caller keep within the wall clock's millisecond *)
(* as long as the clock is not set back: the call waits for the clock       *)
(* rather than borrow from the next millisecond.                            *)
THEOREM TimestampsNotAhead == Spec => []NotAhead
    BY GeneratorInvariant, PTL DEF GenInv
==============================================================================
