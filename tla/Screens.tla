------------------------------- MODULE Screens --------------------------------
(***************************************************************************)
(* The interactive screens of the command and its line of progress: one of *)
(* them is chosen at the start (part), and the others stay as they began.  *)
(***************************************************************************)
EXTENDS Integers, Sequences

CONSTANTS
  None,
  Skills, Comparisons, PageLines, Sizes, MaxLoads,   \* of the update screen
  Reports, FilterTexts, MaxJobs,                     \* of doctor
  Listed, FilterMatches, MaxFilter,                  \* of the picker
  Stages, Delay, MaxTicks                            \* of the line of progress

VARIABLES
  part,
  model, queue, running, work, channel, interruptAfterApply, plan, poisoned, exit, applied, loads,
  interrupted, leaving,
  report, selected, browse, history, pathFilter, filter, editingFilter, detailsFocused, screen, preview,
  reviewed, previousPath, doctorWork, open, jobs, messages, typed, started, summaries, consent, done,
  chosen, cursor, shown, filtering, outcome, waiting,
  lock, stopped, label, clock, painter, command, answer, prompt, terminal

updateVars == <<model, queue, running, work, channel, interruptAfterApply, plan, poisoned, exit, applied,
                loads, interrupted, leaving>>
doctorVars == <<report, selected, browse, history, pathFilter, filter, editingFilter, detailsFocused, screen,
                preview, reviewed, previousPath, doctorWork, open, jobs, messages, typed, started, summaries,
                consent, done>>
pickerVars == <<chosen, cursor, shown, filtering, outcome, waiting>>
statusVars == <<lock, stopped, label, clock, painter, command, answer, prompt, terminal>>
vars == <<part, updateVars, doctorVars, pickerVars, statusVars>>

U == INSTANCE InteractiveUpdate
D == INSTANCE DoctorScreen WITH plan <- reviewed, work <- doctorWork, channel <- messages
P == INSTANCE SkillPicker WITH filter <- shown
S == INSTANCE StatusLine

ASSUME UpdateAssumption == U!UpdateAssumption
ASSUME DoctorAssumption == D!ScreenAssumption
ASSUME PickerAssumption == P!PickerAssumption
ASSUME StatusAssumption == S!StatusAssumption

(* A screen that is not shown starts in one of its initial states.         *)
Init ==
  /\ part \in {"update", "doctor", "picker", "status"}
  /\ U!Init /\ D!Init /\ P!Init /\ S!Init
  /\ part # "update" => model.width = (CHOOSE s \in Sizes : TRUE).width
  /\ part # "picker" => ~waiting
  /\ part # "status" => label = CHOOSE stage \in Stages : TRUE

Update == part = "update" /\ U!Next /\ UNCHANGED <<part, doctorVars, pickerVars, statusVars>>
Doctor == part = "doctor" /\ D!Next /\ UNCHANGED <<part, updateVars, pickerVars, statusVars>>
Picker == part = "picker" /\ P!Next /\ UNCHANGED <<part, updateVars, doctorVars, statusVars>>
Status == part = "status" /\ S!Next /\ UNCHANGED <<part, updateVars, doctorVars, pickerVars>>

Next == Update \/ Doctor \/ Picker \/ Status

(* The loop of the update screen goes on and looks at its channel in each  *)
(* pass, and its worker answers.                                           *)
Fairness ==
  /\ WF_updateVars(part = "update" /\ U!LoopExit) /\ SF_updateVars(part = "update" /\ U!LoopReceive)
  /\ WF_updateVars(part = "update" /\ U!LoopStart) /\ WF_updateVars(part = "update" /\ U!Worker)

Spec == Init /\ [][Next]_vars /\ Fairness

-----------------------------------------------------------------------------
TypesOK == U!TypeOK /\ D!TypeOK /\ D!SelectionExists /\ P!TypeOK

(* A screen changes only what it showed when the user pressed the key:     *)
(* update applies the rows that are marked, with the plan on the screen;   *)
(* doctor applies the plan under review, not for an Enter typed before it  *)
(* was there; the picker changes no mark that the filter hides.            *)
ChangesWhatIsShown ==
  U!AppliesWhatIsShown /\ D!AppliesWhatWasReviewed /\ P!ChangesOnlyWhatIsShown

(* What was done is reported when a screen closes: each Skill that was     *)
(* handed to the update, a Ctrl+C, and each action of doctor that ended;   *)
(* none is left while its action runs.                                     *)
OutcomesReported == U!ResultsComplete /\ U!InterruptKept /\ D!ActionsReported

(* The channel of doctor does not say which job sent a message, so one job *)
(* runs at a time, the one that the screen names; and update shows a range *)
(* as loading only while a request for it is under way.                    *)
WorkIsShown == D!OneJob /\ U!LoadingIsUnderWay

(* Whatever key starts work in the update screen, or changes more of it    *)
(* than the part that is shown, is listed at its foot; Ctrl+C apart.       *)
KeysThatActAreListed == U!KeysThatActAreListed

(* After the user gave up, no effect starts, in particular no update that  *)
(* waited in the queue behind a load.                                      *)
NothingStartsAfterwards == U!NothingStartsAfterwards

(* The Skill that was marked in doctor before a scan is marked after it.   *)
SelectionKept == D!SelectionKept

(* No frame of the spinner is painted over what a prompt or the command    *)
(* wrote on standard error, nor into an answer that follows a prompt, and  *)
(* none is left when the command ends.                                     *)
TextStands == S!TextStands

(* The cursor of the update screen is on a row that is drawn.             *)
CursorInViewport == U!CursorInViewport

(* The user always gets out of the update screen.                          *)
LeavingEnds == U!LeavingEnds
=============================================================================
