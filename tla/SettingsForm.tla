------------------------------- MODULE SettingsForm -------------------------------
(***************************************************************************)
(* A form of the system settings in the web console                        *)
(* (system-settings/hooks/use-settings-form.ts, use-update-option.ts and   *)
(* use-system-options.ts, lib/api.ts, and the sections that use them).     *)
(* The options come from a cached query; the administrator edits several   *)
(* fields and saves, which writes the changed ones one by one.  Each write *)
(* has the options fetched again, and what arrives resets the form.        *)
(*                                                                         *)
(* A value is what stands in a field after its conversion; the trimming of *)
(* the server address on its way out is left out.  The default values of   *)
(* the form library and the two refs of the hook always change together    *)
(* and are one variable, baseline.                                         *)
(***************************************************************************)
EXTENDS Integers, FiniteSets

CONSTANTS
    Fields, Values, Initial,
    Refusals,           \* the server may answer a write with success = false
    Faults,             \* writes and fetches may fail
    MaxOthers,          \* bound on the changes made by other administrators
    None

VARIABLES
    server,             \* the options
    had,                \* history: the values each of them has had
    others,             \* history: changes by others
    get,                \* the fetch: "none", "sent" or "answered", and the options of its answer
    defaults,           \* the options in the cache of the page
    values, baseline,   \* what the fields show, and what they are compared with
    typed,              \* history: the fields edited since the last reset
    saving, data, todo, \* the save: what was submitted, and the fields left to write
    put                 \* the write under way: None, or its field and how it went

serverVars == <<server, had, others>>
fetchVars == <<get, defaults>>
formVars == <<values, baseline, typed>>
saveVars == <<saving, data, todo, put>>
vars == <<serverVars, fetchVars, formVars, saveVars>>

Dirty == {f \in Fields : values[f] # baseline[f]}

(* form.reset                                                              *)
Reset(new) ==
    /\ values' = new
    /\ typed' = {}

(***************************************************************************)
(* The options and their cache                                             *)
(***************************************************************************)

Store(f, v) ==
    /\ server' = [server EXCEPT ![f] = v]
    /\ had' = [had EXCEPT ![f] = @ \cup {v}]

OtherAdmin(f, v) ==
    /\ others < MaxOthers /\ v # server[f]
    /\ others' = others + 1
    /\ Store(f, v)
    /\ UNCHANGED <<fetchVars, formVars, saveVars>>

(* A fetch; one that is under way already is shared.                       *)
Invalidate == get' = (IF get.state = "none" THEN [get EXCEPT !.state = "sent"] ELSE get)

(* The window gains the focus, and the cache is old.                       *)
Refetch ==
    /\ get.state = "none"
    /\ Invalidate
    /\ UNCHANGED <<defaults, serverVars, formVars, saveVars>>

GetOptions ==
    /\ get.state = "sent"
    /\ get' = [state |-> "answered", options |-> server]
    /\ UNCHANGED <<defaults, serverVars, formVars, saveVars>>

(* Fault: new default values move the baseline and leave the form alone.   *)
AdoptWithoutReset(new) == baseline' = new /\ UNCHANGED <<values, typed>>

(* The effect of the hook on default values that differ from the baseline. *)
Adopt(new) ==
    IF new = baseline
    THEN UNCHANGED formVars
    ELSE baseline' = new /\ Reset(new)

GetReplies ==
    /\ get.state = "answered"
    /\ get' = [get EXCEPT !.state = "none"]
    /\ defaults' = get.options
    /\ IF get.options = defaults THEN UNCHANGED formVars ELSE Adopt(get.options)
    /\ UNCHANGED <<serverVars, saveVars>>

GetFails ==
    /\ Faults /\ get.state # "none"
    /\ get' = [get EXCEPT !.state = "none"]
    /\ UNCHANGED <<defaults, serverVars, formVars, saveVars>>

(* A render that hands over a new object of default values runs the effect *)
(* too: any render of the system information, one of the page elsewhere.   *)
Rerender ==
    /\ Adopt(defaults)
    /\ UNCHANGED <<serverVars, fetchVars, saveVars>>

(***************************************************************************)
(* Editing and saving                                                      *)
(***************************************************************************)

(* Fields stay open while a save is under way.                             *)
Edit(f, v) ==
    /\ values' = [values EXCEPT ![f] = v]
    /\ typed' = typed \cup {f}
    /\ UNCHANGED <<baseline, serverVars, fetchVars, saveVars>>

handleReset ==
    /\ ~saving /\ Dirty # {}
    /\ values' = baseline /\ typed' = {}
    /\ UNCHANGED <<baseline, serverVars, fetchVars, saveVars>>

(* The button is off while a save is under way.                            *)
handleSubmit ==
    /\ ~saving /\ Dirty # {}
    /\ saving' = TRUE /\ data' = values /\ todo' = Dirty
    /\ UNCHANGED <<put, serverVars, fetchVars, formVars>>

(* A write reaches the server, is refused by it, or fails before or after  *)
(* it took effect.                                                         *)
UpdateOption(f) ==
    /\ saving /\ put = None /\ f \in todo
    /\ \E outcome \in {"done", "refused", "error"} :
          /\ outcome = "refused" => Refusals
          /\ outcome = "error" => Faults
          /\ put' = [field |-> f, outcome |-> outcome]
          /\ \/ outcome # "refused" /\ Store(f, data[f])
             \/ outcome # "done" /\ UNCHANGED <<server, had>>
    /\ UNCHANGED <<others, saving, data, todo, fetchVars, formVars>>

(* Its answer.  A refusal is shown and the loop goes on; an error ends it. *)
mutateAsync ==
    /\ put # None
    /\ put' = None
    /\ IF put.outcome = "error"
       THEN saving' = FALSE /\ todo' = {}
       ELSE todo' = todo \ {put.field} /\ UNCHANGED saving
    /\ IF put.outcome = "done" THEN Invalidate ELSE UNCHANGED get
    /\ UNCHANGED <<data, defaults, serverVars, formVars>>

(* The end of handleSubmit.                                                *)
SaveEnds ==
    /\ saving /\ todo = {} /\ put = None
    /\ saving' = FALSE
    /\ baseline' = data
    /\ Reset(data)
    /\ UNCHANGED <<data, todo, put, serverVars, fetchVars>>

Init ==
    /\ server = [f \in Fields |-> Initial] /\ had = [f \in Fields |-> {Initial}] /\ others = 0
    /\ get = [state |-> "none", options |-> server] /\ defaults = server
    /\ values = server /\ baseline = server /\ typed = {}
    /\ saving = FALSE /\ data = server /\ todo = {} /\ put = None

Next ==
    \/ Refetch \/ GetOptions \/ GetReplies \/ GetFails \/ Rerender
    \/ \E f \in Fields, v \in Values : OtherAdmin(f, v) \/ Edit(f, v)
    \/ handleReset \/ handleSubmit \/ mutateAsync \/ SaveEnds
    \/ \E f \in Fields : UpdateOption(f)

Spec == Init /\ [][Next]_vars

(***************************************************************************)
(* Properties                                                              *)
(***************************************************************************)

(* A save writes only what the administrator has edited: a field that      *)
(* somebody else changed meanwhile is never written back from a form that  *)
(* still shows, or showed, its old value.                                  *)
OnlyEditsAreSaved == Dirty \subseteq typed

(* What the form takes for saved, and resets to, the server has had.       *)
BaselineWasSaved == \A f \in Fields : baseline[f] \in had[f]
===================================================================================
