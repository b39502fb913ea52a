--------------------------- MODULE RuntimeSettings ---------------------------
(***************************************************************************)
(* The runtime settings (api/v1/settings.py): the table system_settings,   *)
(* the copy that each process keeps in memory, and the requests and jobs   *)
(* that load the table into the copy or change one setting of it.  A       *)
(* change saves the whole copy, so it also saves what the copy holds of    *)
(* all other settings.                                                     *)
(***************************************************************************)
EXTENDS Naturals, FiniteSets

CONSTANTS
    Processes,   \* API processes and workers
    Tasks,       \* loads and updates under way
    Fields,      \* the settings
    Values,      \* what a setting may be
    Default,     \* its value in the environment
    Unset,       \* a setting that was never saved; no task
    MaxUpdates,  \* bound: updates begun
    MaxTrouble   \* bound: database errors and restarts

ASSUME SettingsAssumption ==
    /\ Default \in Values /\ Fields # {} /\ Unset \notin Values \cup Tasks
    /\ MaxUpdates \in Nat /\ MaxTrouble \in Nat

VARIABLES
    stored,      \* system_settings
    memory,      \* the copy of each process
    locked,      \* the task that holds the _settings_lock of each process
    task,        \* each load and update
    wanted,      \* history: what each setting was last set to
    saved,       \* history: what of each setting was ever committed
    overtaken,   \* history: the settings that were set while another task had read
                 \* the table and not finished
    updates, trouble

settingsVars == <<stored, memory, locked, task, wanted, saved, overtaken, updates, trouble>>
historyVars == <<wanted, saved, overtaken>>

Table == [Fields -> Values \cup {Unset}]
Copy  == [Fields -> Values]

\* `read` is the result of get_all, `old` is original_runtime.
Task == [at : {"read", "load", "change", "persist"}, on : Processes, update : BOOLEAN,
         field : Fields, value : Values, read : Table, old : Copy]

ASSUME UnsetAssumption == Unset \notin Task

SettingsTypeOK ==
    /\ stored \in Table /\ wanted \in Table
    /\ memory \in [Processes -> Copy]
    /\ locked \in [Processes -> Tasks \cup {Unset}]
    /\ task \in [Tasks -> Task \cup {Unset}]
    /\ saved \in [Fields -> SUBSET Values]
    /\ overtaken \subseteq Fields
    /\ updates \in 0 .. MaxUpdates /\ trouble \in 0 .. MaxTrouble

Defaults == [f \in Fields |-> Default]
Empty    == [f \in Fields |-> Unset]

SettingsInit ==
    /\ stored = Empty /\ wanted = Empty
    /\ memory = [p \in Processes |-> Defaults]
    /\ locked = [p \in Processes |-> Unset]
    /\ task = [t \in Tasks |-> Unset]
    /\ saved = [f \in Fields |-> {}]
    /\ overtaken = {}
    /\ updates = 0 /\ trouble = 0

-----------------------------------------------------------------------------
TaskAt(t, here) == task[t] # Unset /\ task[t].at = here

\* What a load makes of a copy: the settings that were ever saved.
Loaded(copy, table) ==
    [f \in Fields |-> IF table[f] = Unset THEN copy[f] ELSE table[f]]

New(t, at, p, update, f, v) ==
    /\ task[t] = Unset
    /\ task' = [task EXCEPT ![t] =
          [at |-> at, on |-> p, update |-> update, field |-> f, value |-> v,
           read |-> Empty, old |-> Defaults]]

\* A request or a job that only loads: to show the settings, before a match, an upload
\* or a reindex.
BeginLoad(t) ==
    /\ \E p \in Processes : New(t, "read", p, FALSE, CHOOSE f \in Fields : TRUE, Default)
    /\ UNCHANGED <<stored, memory, locked, historyVars, updates, trouble>>

\* Plausible bug: an update trusts the copy that the process has.
BeginUpdateUnforced(t) ==
    /\ updates < MaxUpdates
    /\ updates' = updates + 1
    /\ \E p \in Processes, f \in Fields, v \in Values : New(t, "change", p, TRUE, f, v)
    /\ UNCHANGED <<stored, memory, locked, historyVars, trouble>>

\* An update loads first, whatever this process has loaded before.
BeginUpdate(t) ==
    /\ updates < MaxUpdates
    /\ updates' = updates + 1
    /\ \E p \in Processes, f \in Fields, v \in Values : New(t, "read", p, TRUE, f, v)
    /\ UNCHANGED <<stored, memory, locked, historyVars, trouble>>

ReadTable(t) ==
    /\ TaskAt(t, "read")
    /\ task' = [task EXCEPT ![t].at = "load", ![t].read = stored]
    /\ UNCHANGED <<stored, memory, locked, historyVars, updates, trouble>>

\* Under the lock, without an await inside; the table may have changed since.
Load(t) ==
    LET p == task[t].on IN
    /\ TaskAt(t, "load")
    /\ locked[p] = Unset
    /\ memory' = [memory EXCEPT ![p] = Loaded(@, task[t].read)]
    /\ task' = [task EXCEPT ![t] = IF @.update THEN [@ EXCEPT !.at = "change", !.read = Empty]
                                ELSE Unset]
    /\ UNCHANGED <<stored, locked, historyVars, updates, trouble>>

\* From here to the end of the commit the lock is held, and the change can be seen.
ChangeCopy(t) ==
    LET p == task[t].on IN
    /\ TaskAt(t, "change")
    /\ locked[p] = Unset
    /\ locked' = [locked EXCEPT ![p] = t]
    /\ task' = [task EXCEPT ![t].at = "persist", ![t].old = memory[p]]
    /\ memory' = [memory EXCEPT ![p][task[t].field] = task[t].value]
    /\ UNCHANGED <<stored, historyVars, updates, trouble>>

\* The tasks that have read the table before this commit of t.
Behind(t) == {u \in Tasks \ {t} : task[u] # Unset /\ task[u].at # "read"}

\* _persist_settings: the whole copy in one transaction.
Persist(t) ==
    LET p == task[t].on  f == task[t].field IN
    /\ TaskAt(t, "persist")
    /\ stored' = memory[p]
    /\ locked' = [locked EXCEPT ![p] = Unset]
    /\ task' = [task EXCEPT ![t] = Unset]
    /\ wanted' = [wanted EXCEPT ![f] = task[t].value]
    /\ saved' = [g \in Fields |-> saved[g] \cup {memory[p][g]}]
    /\ overtaken' = IF Behind(t) = {} THEN overtaken \ {f} ELSE overtaken \cup {f}
    /\ UNCHANGED <<memory, updates, trouble>>

Trouble == trouble < MaxTrouble /\ trouble' = trouble + 1

\* Plausible bug: the transaction is rolled back and the copy is not.
PersistFailsUnrestored(t) ==
    LET p == task[t].on IN
    /\ Trouble
    /\ TaskAt(t, "persist")
    /\ locked' = [locked EXCEPT ![p] = Unset]
    /\ task' = [task EXCEPT ![t] = Unset]
    /\ UNCHANGED <<stored, memory, historyVars, updates>>

\* The transaction fails: nothing is saved, and the copy is what it was.
PersistFails(t) ==
    LET p == task[t].on IN
    /\ Trouble
    /\ TaskAt(t, "persist")
    /\ memory' = [memory EXCEPT ![p] = task[t].old]
    /\ locked' = [locked EXCEPT ![p] = Unset]
    /\ task' = [task EXCEPT ![t] = Unset]
    /\ UNCHANGED <<stored, historyVars, updates>>

\* The table cannot be read.  A job goes on with the copy it has; an update has lost its
\* transaction with that, and will change the copy only to put it back.
ReadFails(t) ==
    /\ Trouble
    /\ TaskAt(t, "read")
    /\ task' = [task EXCEPT ![t] = Unset]
    /\ UNCHANGED <<stored, memory, locked, historyVars, updates>>

\* A provider that cannot do what it is to be used for is refused after the load.
Invalid(t) ==
    /\ TaskAt(t, "change")
    /\ task' = [task EXCEPT ![t] = Unset]
    /\ UNCHANGED <<stored, memory, locked, historyVars, updates, trouble>>

\* The process dies with its tasks; the new one loads before it serves anything, or
\* starts with its environment if the database does not answer.
Restart(p) ==
    /\ Trouble
    /\ memory' \in {[memory EXCEPT ![p] = Loaded(Defaults, stored)],
                    [memory EXCEPT ![p] = Defaults]}
    /\ locked' = [locked EXCEPT ![p] = Unset]
    /\ task' = [t \in Tasks |-> IF task[t] # Unset /\ task[t].on = p THEN Unset
                                ELSE task[t]]
    /\ UNCHANGED <<stored, historyVars, updates>>

TaskMoves(t) ==
    ReadTable(t) \/ Load(t) \/ ChangeCopy(t) \/ Persist(t) \/ PersistFails(t) \/ Invalid(t)

SettingsNext ==
    \/ \E t \in Tasks : BeginLoad(t) \/ BeginUpdate(t) \/ TaskMoves(t) \/ ReadFails(t)
    \/ \E p \in Processes : Restart(p)

SettingsSpec == SettingsInit /\ [][SettingsNext]_settingsVars

-----------------------------------------------------------------------------
\* What an administrator has saved stays saved until he sets it anew: the update of
\* another setting in another process, with a copy from before, does not put the old
\* value back, nor does one in a process that has just restarted without the table.
\* It may, if the other update or a load was already under way with an older table.
UpdatesSurvive ==
    \A f \in Fields \ overtaken : wanted[f] # Unset => stored[f] = wanted[f]

\* Except during an update, a process works only with settings that were saved at some
\* time or are its environment's, also after an update that failed.
OnlySavedSettings ==
    \A p \in Processes, f \in Fields :
        locked[p] = Unset => memory[p][f] \in saved[f] \cup {Default}
=============================================================================
