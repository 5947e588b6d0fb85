---------------------------- MODULE NetworkSetup ----------------------------
(***************************************************************************)
(* The rollback state of scripts/setup-iran-network.sh. One setting is     *)
(* modelled at a time: the rp_filter of an interface, or the /32 routes to *)
(* a host. The script saves what it finds in a state file before its first *)
(* change and puts it back on request.                                     *)
(*                                                                         *)
(* The kernel keeps one /32 route per metric and prints them in order of   *)
(* their metrics. `ip route replace` exchanges or adds the one of the      *)
(* metric named, 0 if none is; `ip route del` without a metric takes the   *)
(* first. A setting is a table from metrics to values, in which rp_filter  *)
(* is the value of metric 0.                                               *)
(*                                                                         *)
(* The script runs under set -e: a command that fails ends it there, and   *)
(* so does an interrupt. `command > file` creates the empty file before    *)
(* the command runs. rp_filter always has a value; there may be no route,  *)
(* which is saved as an empty file.                                        *)
(*                                                                         *)
(* Nothing keeps two invocations apart: every one has its own place in the *)
(* script, and they share the setting and the state file.                  *)
(***************************************************************************)
EXTENDS Integers

CONSTANTS
    Value,          \* the values of rp_filter, or the ways a route may go
    Metric,         \* the metrics of routes
    Unset,          \* no route: not a value
    Absent, Empty,  \* of the state file: it does not exist, holds nothing
    Loose,          \* the value rp_filter is set to: 2
    Shell,          \* the shells that run the script
    MaxInterrupts,  \* bound: invocations that end early
    MaxCalls        \* bound: invocations

ASSUME NetworkAssumption ==
    /\ Loose \in Value /\ Unset \notin Value
    /\ Metric \subseteq Nat /\ 0 \in Metric
    /\ {Absent, Empty, Unset} \cap (Metric \X Value) = {}
    /\ Absent # Empty
    /\ MaxInterrupts \in Nat /\ MaxCalls \in Nat

VARIABLES
    route,       \* the setting is routes, or else rp_filter: never changes
    setting,     \* what the kernel has: metric -> value or Unset
    state,       \* the state file: Absent, Empty, or its first line, which is
                 \* a metric and a value
    step,        \* shell -> its next command, "idle" between two invocations
    value,       \* shell -> the line to put, its argument or what a restore
                 \* read, or Unset
    calls, interrupts,
    initial,     \* history: the setting before the first invocation
    original,    \* history: the setting before the first change to roll back
    overlap,     \* history: a set has met another invocation, or any two did
                 \* that are about a route
    broken       \* history: since the state file was last absent, routes were
                 \* not saved because the invocation ended, or not deleted

history == <<initial, original, overlap, broken>>
setupVars == <<route, setting, state, step, value, calls, interrupts, history>>

Tables(routes) ==
    {t \in [Metric -> Value \cup {Unset}] :
        ~routes => \A m \in Metric : t[m] \in Value <=> m = 0}

SetupInit ==
    /\ route \in BOOLEAN
    /\ setting \in Tables(route)
    /\ initial = setting /\ original = setting
    /\ overlap = FALSE /\ broken = FALSE
    /\ state = Absent
    /\ step = [s \in Shell |-> "idle"]
    /\ value = [s \in Shell |-> Unset]
    /\ calls = 0 /\ interrupts = 0

\* Shell s runs one command of the script.
Runs(s, from, to) ==
    /\ step[s] = from
    /\ step' = [step EXCEPT ![s] = to]
    /\ UNCHANGED <<route, calls, interrupts, history>>

Begins(s, to) ==
    /\ step[s] = "idle" /\ calls < MaxCalls
    /\ calls' = calls + 1
    /\ step' = [step EXCEPT ![s] = to]
    /\ overlap' = \/ overlap
                  \/ \E o \in Shell \ {s} :
                         /\ step[o] # "idle"
                         /\ \/ route \/ to # "read"
                            \/ step[o] \in {"create", "save", "apply"}
    /\ UNCHANGED <<route, setting, state, interrupts, initial>>

-----------------------------------------------------------------------------
(* sysctl and ip.                                                          *)

NoRoute(t) == \A m \in Metric : t[m] = Unset

First(t) ==
    CHOOSE m \in Metric :
        t[m] # Unset /\ \A k \in Metric : t[k] # Unset => m <= k

\* sysctl -n, or the first line that ip route show prints.
FirstLine(t) == <<First(t), t[First(t)]>>

\* sysctl -w, or ip route replace.
Put(t, line) == [t EXCEPT ![line[1]] = line[2]]

\* ip route del, which fails if there is nothing to delete.
Deleted(t) == IF NoRoute(t) THEN t ELSE [t EXCEPT ![First(t)] = Unset]

-----------------------------------------------------------------------------
(* --set-rp-filter-loose, --route-dev and --route-gw.                      *)

\* Mutant: the current setting is saved on every call.
FirstStepResaves == "create"

\* [[ ! -e file ]]: only the first call saves.
FirstStep == IF state = Absent THEN "create" ELSE "apply"

SetBegins(s, v) ==
    /\ Begins(s, FirstStep)
    /\ route \/ v = Loose
    /\ value' = [value EXCEPT ![s] = <<0, v>>]
    /\ original' = IF state = Absent THEN setting ELSE original
    /\ broken' = (broken /\ state # Absent)

\* The shell opens the state file, cutting it to nothing ...
Creates(s) ==
    /\ Runs(s, "create", "save")
    /\ state' = Empty
    /\ UNCHANGED <<setting, value>>

\* ... and the command prints into it: nothing, if there is no route.
Saves(s) ==
    /\ Runs(s, "save", "apply")
    /\ state' = IF NoRoute(setting) THEN state ELSE FirstLine(setting)
    /\ UNCHANGED <<setting, value>>

\* No metric is named: a route that has one stays beside the new one.
Applies(s) ==
    /\ Runs(s, "apply", "idle")
    /\ setting' = Put(setting, value[s])
    /\ UNCHANGED <<state, value>>

-----------------------------------------------------------------------------
(* --restore-rp-filter and --restore-route.                                *)

\* [[ -f file ]]: without a state file the script refuses.
RestoreBegins(s) ==
    /\ state # Absent
    /\ Begins(s, "read")
    /\ UNCHANGED <<value, original, broken>>

\* Mutant: rp_filter is restored to whatever the file holds.
ReadableAlways == TRUE

\* What was saved for rp_filter must match ^[012]$. A route is deleted when
\* [[ -s file ]] fails: the file is empty, or gone in the meantime.
Readable == route \/ state \notin {Absent, Empty}

RestoreReads(s) ==
    /\ Runs(s, "read", IF Readable THEN "restore" ELSE "idle")
    /\ value' = [value EXCEPT ![s] =
                     IF state \in {Absent, Empty} THEN Unset ELSE state]
    /\ UNCHANGED <<setting, state>>

Restores(s) ==
    /\ Runs(s, "restore", "remove")
    /\ setting' = IF value[s] = Unset THEN Deleted(setting)
                  ELSE Put(setting, value[s])
    /\ UNCHANGED <<state, value>>

\* ip route del ... || true: its failure does not end the script.
DeleteFails(s) ==
    /\ step[s] = "restore" /\ value[s] = Unset /\ interrupts < MaxInterrupts
    /\ step' = [step EXCEPT ![s] = "remove"]
    /\ interrupts' = interrupts + 1
    /\ broken' = (broken \/ ~NoRoute(setting))
    /\ UNCHANGED <<route, setting, state, value, calls, initial, original,
                   overlap>>

\* rm -f. What another shell was about to print goes to a file without name.
Removes(s) ==
    /\ step[s] = "remove"
    /\ step' = [o \in Shell |-> IF o = s THEN "idle"
                                 ELSE IF step[o] = "save" THEN "apply"
                                 ELSE step[o]]
    /\ state' = Absent
    /\ UNCHANGED <<route, setting, value, calls, interrupts, history>>

-----------------------------------------------------------------------------

\* A command fails or the invocation is interrupted before its next step.
Interrupt(s) ==
    /\ step[s] # "idle" /\ interrupts < MaxInterrupts
    /\ interrupts' = interrupts + 1
    /\ step' = [step EXCEPT ![s] = "idle"]
    /\ broken' = \/ broken
                 \/ route /\ step[s] = "save" /\ ~NoRoute(setting)
    /\ UNCHANGED <<route, setting, state, value, calls, initial, original,
                   overlap>>

SetupNext ==
    \E s \in Shell :
        \/ \E v \in Value : SetBegins(s, v)
        \/ Creates(s) \/ Saves(s) \/ Applies(s)
        \/ RestoreBegins(s) \/ RestoreReads(s) \/ Restores(s) \/ Removes(s)
        \/ DeleteFails(s) \/ Interrupt(s)

SetupSpec == SetupInit /\ [][SetupNext]_setupVars

-----------------------------------------------------------------------------
(* Properties.                                                             *)

\* Routes the script can put back: none, or ones of which the first has no
\* metric, so that the script's own route took its place.
Restorable(t) == NoRoute(t) \/ t[0] # Unset

\* Rollback: when a restore has done its work, the setting is the one from
\* before the first change, however many changes came after it and wherever
\* invocations broke off. For rp_filter this needs no more, and restores may
\* race. For routes no two invocations may meet, none may end while it saves a
\* route, no failure of ip route del be ignored, and the first route of the
\* host must have had no metric: else the script reports "route state restored"
\* of routes that it has not put back.
RestoreSurvives ==
    ~overlap /\ ~broken /\ Restorable(original) =>
        \A s \in Shell : step[s] = "remove" => setting = original

\* Whatever invocations meet or break off, the rp_filter of an interface is
\* what it was before the first one, or loose: a broken state file or a racing
\* restore never writes anything else into it.
OnlyLoosened == ~route => setting[0] \in {initial[0], Loose}

-----------------------------------------------------------------------------
(* The inductive invariants behind them.                                   *)

Steps == {"idle", "create", "save", "apply", "read", "restore", "remove"}
Lines == Metric \X Value

TypeOK ==
    /\ route \in BOOLEAN /\ overlap \in BOOLEAN /\ broken \in BOOLEAN
    /\ {setting, initial, original} \subseteq Tables(route)
    /\ state \in {Absent, Empty} \cup Lines
    /\ step \in [Shell -> Steps]
    /\ value \in [Shell -> Lines \cup {Unset}]
    /\ \A s \in Shell : step[s] \in {"create", "save", "apply"} =>
           value[s] \in {0} \X Value

\* Only the first and the loose value of rp_filter are ever on their way.
LooseOrInitial ==
    LET Known == {<<0, initial[0]>>, <<0, Loose>>}
    IN  ~route =>
            /\ setting[0] \in {initial[0], Loose}
            /\ state \in Known \cup {Absent, Empty}
            /\ \A s \in Shell :
                   /\ step[s] \in {"create", "save", "apply"} =>
                          value[s] = <<0, Loose>>
                   /\ step[s] \in {"restore", "remove"} => value[s] \in Known

\* Who meets whom while nothing overlaps: a set of rp_filter nobody, and an
\* invocation about a route nobody either.
Alone ==
    \A s, o \in Shell :
        s # o /\ (route \/ step[s] \in {"create", "save", "apply"}) =>
            step[s] = "idle" \/ step[o] = "idle"

\* Until the first value is saved the setting is the original one, from which
\* later it differs by what the script put, if at all. From then on the state
\* file has the first line of the original, or has nothing; for routes, nothing
\* means that there was none.
Saved ==
    /\ \A m \in Metric \ {0} : setting[m] = original[m]
    /\ \A s \in Shell :
           /\ step[s] \in {"create", "save", "remove"} => setting = original
           /\ step[s] = "restore" =>
                  value[s] = IF NoRoute(original) THEN Unset
                             ELSE FirstLine(original)
    /\ state \notin {Absent, Empty} =>
           ~NoRoute(original) /\ state = FirstLine(original)
    /\ route =>
           /\ \A s \in Shell : /\ step[s] = "save" => state = Empty
                               /\ step[s] \in {"read", "restore"} =>
                                      state # Absent
           /\ state = Empty /\ (\A s \in Shell : step[s] # "save") =>
                  NoRoute(original)

RollbackInvariant ==
    /\ TypeOK /\ LooseOrInitial /\ (broken => route)
    /\ ~overlap => Alone
    /\ ~overlap /\ ~broken /\ Restorable(original) => Saved

=============================================================================
