------------------------------ MODULE StatusLine ------------------------------
(***************************************************************************)
(* The line of progress that a command paints on standard error while it   *)
(* waits (native/src/status.rs): a thread that paints frames of a spinner, *)
(* the command that changes the label, and whoever needs the terminal and  *)
(* stops the painting.  They share a lock.  What the command writes on     *)
(* standard error goes through GatedStderr, which stops the painting       *)
(* first; the answer of a command that succeeds goes to standard output,   *)
(* which has no gate (main.rs).                                            *)
(*                                                                         *)
(* terminal is what the last line of the terminal shows, when standard     *)
(* output is that terminal too, as it is whenever there is a line.         *)
(***************************************************************************)
EXTENDS Naturals

CONSTANTS
  Stages,     \* RemoteProgressStage
  Delay,      \* START_DELAY, in ticks
  MaxTicks    \* bound: the time that passes

VARIABLES
  lock,       \* who holds the state: "free", "painter", "stopper"
  stopped, label, clock,
  painter,    \* "sleeping", "looking", "gone"
  command,    \* "running", "answering", "answered", "writing" (it took the line), "done"
  answer,     \* history, of the answer on standard output: "none", "whole", "spoiled" by a frame
  prompt,     \* a prompt that stops the line on its own: "none", "open", "closed"
  terminal
vars == <<lock, stopped, label, clock, painter, command, answer, prompt, terminal>>

Blank == "blank"
Text == "text"              \* on standard error, of a prompt or of the command
AnswerLine == "answer"      \* a line of the answer, not yet ended

StatusAssumption == {Blank, Text, AnswerLine} \cap Stages = {} /\ Delay \in Nat /\ MaxTicks \in Nat

Init ==
  /\ lock = "free" /\ stopped = FALSE /\ label \in Stages /\ clock = 0
  /\ painter = "sleeping" /\ command = "running" /\ answer = "none"
  /\ prompt = "none" /\ terminal = Blank

Tick ==
  /\ clock < MaxTicks /\ clock' = clock + 1
  /\ UNCHANGED <<lock, stopped, label, painter, command, answer, prompt, terminal>>

Wake ==
  /\ painter = "sleeping" /\ lock = "free" /\ lock' = "painter" /\ painter' = "looking"
  /\ UNCHANGED <<stopped, label, clock, command, answer, prompt, terminal>>

(* Faulty variant: the painter looks at stopped and paints afterwards,     *)
(* without the lock.                                                       *)
PaintUnlocked ==
  /\ painter = "looking"
  /\ \/ /\ lock = "painter" /\ ~stopped /\ clock >= Delay /\ lock' = "free"
        /\ UNCHANGED <<painter, terminal>>
     \/ /\ lock # "painter" /\ terminal' = label /\ painter' = "sleeping" /\ UNCHANGED lock
     \/ /\ lock = "painter" /\ (stopped \/ clock < Delay) /\ lock' = "free"
        /\ painter' = (IF stopped THEN "gone" ELSE "sleeping") /\ UNCHANGED terminal
  /\ UNCHANGED <<stopped, label, clock, command, answer, prompt>>

Paint ==
  /\ painter = "looking" /\ lock = "painter" /\ lock' = "free"
  /\ painter' = IF stopped THEN "gone" ELSE "sleeping"
  /\ IF ~stopped /\ clock >= Delay
     THEN terminal' = label /\ answer' = IF command = "answering" THEN "spoiled" ELSE answer
     ELSE UNCHANGED <<terminal, answer>>
  /\ UNCHANGED <<stopped, label, clock, command, prompt>>

SetLabel ==
  /\ command = "running" /\ lock = "free" /\ label' \in Stages
  /\ UNCHANGED <<lock, stopped, clock, painter, command, answer, prompt, terminal>>

(* StatusStop: the first call erases the line. *)
Stop ==
  /\ lock = "free" /\ stopped' = TRUE
  /\ terminal' = IF stopped THEN terminal ELSE Blank

(* A prompt takes the line while the command goes on behind it. *)
OpenPrompt ==
  /\ command = "running" /\ prompt = "none" /\ Stop /\ prompt' = "open"
  /\ UNCHANGED <<lock, label, clock, painter, command, answer>>

ShowPrompt ==
  /\ prompt = "open" /\ terminal' = Text /\ prompt' = "closed"
  /\ UNCHANGED <<lock, stopped, label, clock, painter, command, answer>>

(* write_success: the answer goes to the terminal as it stands, whatever   *)
(* frame is there, and the painter may come in between.                    *)
Answer ==
  /\ command = "running" /\ prompt # "open"
  /\ command' = "answering" /\ terminal' = AnswerLine
  /\ answer' = IF terminal \in Stages THEN "spoiled" ELSE "whole"
  /\ UNCHANGED <<lock, stopped, label, clock, painter, prompt>>

EndAnswer ==
  /\ command = "answering" /\ command' = "answered" /\ terminal' = Blank
  /\ UNCHANGED <<lock, stopped, label, clock, painter, answer, prompt>>

(* GatedStderr::finish_status: before the first output to standard error,  *)
(* or after the answer; the line is stopped, and the painter waited for.   *)
FinishStatus ==
  /\ command \in {"running", "answered"} /\ prompt # "open" /\ Stop /\ command' = "writing"
  /\ UNCHANGED <<lock, label, clock, painter, answer, prompt>>

(* An error, or after an answer the notices, if there are any.             *)
Write ==
  /\ command = "writing" /\ painter = "gone" /\ command' = "done"
  /\ \/ terminal' = Text
     \/ answer # "none" /\ UNCHANGED terminal
  /\ UNCHANGED <<lock, stopped, label, clock, painter, answer, prompt>>

Painting == Wake \/ Paint
Next == Tick \/ Painting \/ SetLabel \/ OpenPrompt \/ ShowPrompt \/ Answer \/ EndAnswer
        \/ FinishStatus \/ Write

Spec == Init /\ [][Next]_vars

(* What a prompt or the command writes on standard error stands: only the  *)
(* answer may follow it, on a line of its own.  An answer is whole if a    *)
(* prompt stopped the line before it, and no frame is left on the screen   *)
(* when the command ends.  Without a prompt nothing is promised of the     *)
(* answer: it may follow a frame on its line, or have one painted into it. *)
Stands == terminal = Text => terminal' \in {Text, AnswerLine}
AnswersWhole == prompt = "closed" => answer # "spoiled"
LineIsErased == command = "done" => terminal \notin Stages

TextStands == [][Stands]_vars /\ [](AnswersWhole /\ LineIsErased)

=============================================================================
