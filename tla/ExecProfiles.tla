---------------------------- MODULE ExecProfiles ----------------------------
(***************************************************************************)
(* Execution profiles (exec_profile.rs, and their use in cluster.rs and    *)
(* session.rs): a profile object is edited, copied into a cluster under a  *)
(* name, completed with the cluster's settings when a session connects,    *)
(* and looked up when a statement that names it is executed.  The lookup   *)
(* is done once per set_execution_profile call: its result is kept in a    *)
(* cell that the statement shares with the futures of its executions.      *)
(***************************************************************************)
EXTENDS Naturals

CONSTANTS Settings, Consistency,  \* the kinds of setting; the consistency
          Values, DEFAULT_CONSISTENCY,
          Names, Sessions, Execs,
          None, Inherit,
          MaxEdits, MaxCells      \* bounds on configuration calls and on cells

ASSUME ProfilesAssumption ==
    /\ Consistency \in Settings /\ DEFAULT_CONSISTENCY \in Values
    /\ Inherit \notin Values
    /\ MaxEdits \in Nat /\ MaxCells \in Nat

VARIABLES default,  \* the cluster's default_execution_profile_builder
          profile,  \* the profile objects, by the name they are attached under
          attached, \* CassCluster.execution_profile_map
          conn,     \* what each session copied when it connected
          cell,     \* the PerStatementExecProfile cells made so far
          stmt,     \* the cell of the statement, 0 if it names no profile
          exec,     \* the executions of the statement
          edits

profileVars == <<default, profile, attached, conn, cell, stmt, exec, edits>>

(* stored and overridden are the code's fields; wanted records what the      *)
(* application last asked for.                                              *)
Profile == [stored : [Settings -> Values], overridden : SUBSET Settings,
            wanted : [Settings -> Values \cup {Inherit}]]
Built == [value : [Settings -> Values], wanted : [Settings -> Values \cup {Inherit}]]
Connection == [default : [Settings -> Values], profiles : [Names -> Built \cup {None}]]

Cells == 1 .. MaxCells
Cell == [name : Names, handle : Built \cup {None}]
Execution == [pc : {"read", "write", "done", "invalid"}, session : Sessions,
              conn : Connection, cell : 0 .. MaxCells, used : Built \cup {None}]

(* None is neither a cell nor an execution.                                 *)
ASSUME NoneAssumption == None \notin Cell \cup Execution

ProfilesTypeOK ==
    /\ default \in [Settings -> Values]
    /\ profile \in [Names -> Profile]
    /\ attached \in [Names -> Profile \cup {None}]
    /\ conn \in [Sessions -> Connection \cup {None}]
    /\ cell \in [Cells -> Cell \cup {None}]
    /\ stmt \in 0 .. MaxCells
    /\ exec \in [Execs -> Execution \cup {None}]
    /\ edits \in 0 .. MaxEdits

(* DEFAULT_CONSISTENCY stands for every setting's initial value.             *)
New == [stored |-> [k \in Settings |-> DEFAULT_CONSISTENCY], overridden |-> {},
        wanted |-> [k \in Settings |-> Inherit]]

ProfilesInit ==
    /\ default = [k \in Settings |-> DEFAULT_CONSISTENCY]
    /\ profile = [n \in Names |-> New]
    /\ attached = [n \in Names |-> None]
    /\ conn = [s \in Sessions |-> None]
    /\ cell = [c \in Cells |-> None]
    /\ stmt = 0
    /\ exec = [e \in Execs |-> None]
    /\ edits = 0

-----------------------------------------------------------------------------
(* Configuration.                                                           *)
Edit == edits < MaxEdits /\ edits' = edits + 1 /\ UNCHANGED <<conn, cell, stmt, exec>>

(* cass_cluster_set_consistency and the other cluster-wide defaults.        *)
SetDefault(k, v) ==
    /\ Edit
    /\ default' = [default EXCEPT ![k] = v]
    /\ UNCHANGED <<profile, attached>>

SetSetting(n, k, v) ==
    /\ Edit
    /\ profile' = [profile EXCEPT ![n] =
            [stored |-> [@.stored EXCEPT ![k] = v],
             overridden |-> @.overridden \cup {k},
             wanted |-> [@.wanted EXCEPT ![k] = v]]]
    /\ UNCHANGED <<default, attached>>

BugUnsetKeepsFlag(n, k) ==   \* the override is not withdrawn
    /\ Edit
    /\ profile' = [profile EXCEPT ![n].wanted[k] = Inherit]
    /\ UNCHANGED <<default, attached>>

(* The "unset" value of a setting: the stored value stays, unused.          *)
UnsetSetting(n, k) ==
    /\ Edit
    /\ profile' = [profile EXCEPT ![n] =
            [stored |-> @.stored, overridden |-> @.overridden \ {k},
             wanted |-> [@.wanted EXCEPT ![k] = Inherit]]]
    /\ UNCHANGED <<default, attached>>

Attach(n) ==
    /\ Edit
    /\ attached' = [attached EXCEPT ![n] = profile[n]]
    /\ UNCHANGED <<default, profile>>

BugCopyDefaults(p) ==        \* settings missing from the built profile
    [value |-> [k \in p.overridden |-> p.stored[k]], wanted |-> p.wanted]

(* use_cluster_defaults_for_unset_settings.                                 *)
build(p) ==
    [value |-> [k \in Settings |->
                  IF k \in p.overridden THEN p.stored[k]
                  ELSE IF k = Consistency THEN DEFAULT_CONSISTENCY
                  ELSE default[k]],
     wanted |-> p.wanted]

(* A session connects, or reconnects when none of its requests is running   *)
(* (a request holds the session's read guard).                              *)
Connect(s) ==
    /\ \A e \in Execs : exec[e] # None /\ exec[e].session = s
                            => exec[e].pc \in {"done", "invalid"}
    /\ conn' = [conn EXCEPT ![s] =
            [default |-> default,
             profiles |-> [n \in Names |->
                             IF attached[n] = None THEN None ELSE build(attached[n])]]]
    /\ conn' # conn
    /\ UNCHANGED <<default, profile, attached, cell, stmt, exec, edits>>

-----------------------------------------------------------------------------
(* cass_statement_set_execution_profile(_n), or the batch one; None clears. *)
SetExecutionProfile(n) ==
    /\ \/ /\ n = None
          /\ stmt # 0
          /\ stmt' = 0
          /\ UNCHANGED cell
       \/ /\ n \in Names
          /\ \E c \in Cells :
                /\ cell[c] = None /\ \A d \in 1 .. c - 1 : cell[d] # None
                /\ cell' = [cell EXCEPT ![c] = [name |-> n, handle |-> None]]
                /\ stmt' = c
    /\ UNCHANGED <<default, profile, attached, conn, exec, edits>>

(* cass_session_execute(_batch): the future gets a clone of the cell's Arc. *)
Execute(e, s) ==
    /\ exec[e] = None /\ conn[s] # None
    /\ exec' = [exec EXCEPT ![e] =
            [pc |-> IF stmt = 0 THEN "done" ELSE "read", session |-> s,
             conn |-> conn[s], cell |-> stmt, used |-> None]]
    /\ UNCHANGED <<default, profile, attached, conn, cell, stmt, edits>>

Use(e, next, handle) ==
    exec' = [exec EXCEPT ![e].pc = next, ![e].used = handle]

(* get_or_resolve_profile_handle, under the read lock.                      *)
ReadCell(e) ==
    /\ exec[e] # None /\ exec[e].pc = "read"
    /\ LET handle == cell[exec[e].cell].handle
       IN  Use(e, IF handle = None THEN "write" ELSE "done", handle)
    /\ UNCHANGED <<default, profile, attached, conn, cell, stmt, edits>>

BugNoSecondLook(e) ==        \* resolves again although another future has
    /\ exec[e] # None /\ exec[e].pc = "write"
    /\ LET c == exec[e].cell
           found == exec[e].conn.profiles[cell[c].name]
       IN  /\ Use(e, IF found = None THEN "invalid" ELSE "done", found)
           /\ cell' = [cell EXCEPT ![c].handle = found]
    /\ UNCHANGED <<default, profile, attached, conn, stmt, edits>>

BugWrongProfile(e) ==        \* takes some profile of the session
    /\ exec[e] # None /\ exec[e].pc = "write"
    /\ \E n \in Names :
          LET found == exec[e].conn.profiles[n]
          IN  /\ Use(e, IF found = None THEN "invalid" ELSE "done", found)
              /\ cell' = [cell EXCEPT ![exec[e].cell].handle = found]
    /\ UNCHANGED <<default, profile, attached, conn, stmt, edits>>

(* The same under the write lock: a second look, then the session's map.    *)
ResolveCell(e) ==
    /\ exec[e] # None /\ exec[e].pc = "write"
    /\ LET c == exec[e].cell
           found == exec[e].conn.profiles[cell[c].name]
       IN  \/ /\ cell[c].handle # None
              /\ Use(e, "done", cell[c].handle)
              /\ UNCHANGED cell
           \/ /\ cell[c].handle = None /\ found # None
              /\ Use(e, "done", found)
              /\ cell' = [cell EXCEPT ![c].handle = found]
           \/ /\ cell[c].handle = None /\ found = None
              /\ Use(e, "invalid", None)
              /\ UNCHANGED cell
    /\ UNCHANGED <<default, profile, attached, conn, stmt, edits>>

ProfilesNext ==
    \/ \E k \in Settings, v \in Values : SetDefault(k, v)
    \/ \E n \in Names :
          \/ Attach(n)
          \/ \E k \in Settings : UnsetSetting(n, k) \/ \E v \in Values : SetSetting(n, k, v)
    \/ \E s \in Sessions : Connect(s)
    \/ \E n \in Names \cup {None} : SetExecutionProfile(n)
    \/ \E e \in Execs :
          \/ \E s \in Sessions : Execute(e, s)
          \/ ReadCell(e) \/ ResolveCell(e)

ProfilesSpec == ProfilesInit /\ [][ProfilesNext]_profileVars

-----------------------------------------------------------------------------
Resolved == {e \in Execs : exec[e] # None /\ exec[e].pc = "done" /\ exec[e].cell # 0}
OwnProfile(e) == exec[e].conn.profiles[cell[exec[e].cell].name]

(* A connected session's profiles hold, for every setting, the value asked   *)
(* for last before the profile was attached; a setting never asked for, or   *)
(* unset again, is the cluster's.  On the consistency of the last kind the   *)
(* repository does not agree: the hardcoded default (exec_profile.rs:82) or  *)
(* the cluster's (exec_profile.rs:374, execution-profiles.md:51).  All that  *)
(* is claimed of it is that it is one of these two, and nothing left over    *)
(* from a request that was withdrawn.                                        *)
BuiltAsAsked(p, inherited) ==
    \A k \in Settings :
        IF p.wanted[k] # Inherit THEN p.value[k] = p.wanted[k]
        ELSE \/ p.value[k] = inherited[k]
             \/ k = Consistency /\ p.value[k] = DEFAULT_CONSISTENCY
SettingsAsAsked ==
    \A s \in Sessions, n \in Names :
        conn[s] # None /\ conn[s].profiles[n] # None =>
            BuiltAsAsked(conn[s].profiles[n], conn[s].default)

(* All executions that share a cell run with the same profile, whichever     *)
(* resolved it and however their lookups interleave.                         *)
OneProfilePerCell ==
    \A e, f \in Resolved : exec[e].cell = exec[f].cell => exec[e].used = exec[f].used

(* A statement that is executed on one connection only runs with the profile *)
(* that connection has under the statement's name.                           *)
OwnProfileOnOneConnection ==
    \A e \in Resolved :
        (\A f \in Execs : exec[f] # None /\ exec[f].cell = exec[e].cell
                            => exec[f].conn = exec[e].conn)
            => exec[e].used = OwnProfile(e)

(* What makes them so.  A setting is flagged as overridden exactly when it    *)
(* was asked for, and then its stored value is the one asked for.            *)
AsAsked(p) ==
    \A k \in Settings : p.wanted[k] = IF k \in p.overridden THEN p.stored[k] ELSE Inherit
ObjectsAsAsked ==
    \A n \in Names : AsAsked(profile[n]) /\ (attached[n] # None => AsAsked(attached[n]))

(* A cell is filled from the connection of an execution that shares it, and  *)
(* an execution that got past the lookup uses what its cell holds.           *)
InUse(e) ==
    /\ exec[e].cell # 0 => cell[exec[e].cell] # None
    /\ exec[e].pc \in {"read", "write"} => exec[e].cell # 0
    /\ exec[e].pc = "done" /\ exec[e].cell # 0 =>
          exec[e].used # None /\ exec[e].used = cell[exec[e].cell].handle
FilledBy(c, e) ==
    exec[e] # None /\ exec[e].cell = c /\ cell[c].handle = exec[e].conn.profiles[cell[c].name]
CellsInUse ==
    /\ stmt # 0 => cell[stmt] # None
    /\ \A e \in Execs : exec[e] # None => InUse(e)
    /\ \A c \in Cells : cell[c] # None /\ cell[c].handle # None =>
          \E e \in Execs : FilledBy(c, e)

(* The inductive invariant of execution profiles: the types, the profile     *)
(* objects, the connected sessions and the cells.                            *)
ProfilesInv == ProfilesTypeOK /\ ObjectsAsAsked /\ SettingsAsAsked /\ CellsInUse
=============================================================================
