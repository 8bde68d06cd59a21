----------------------------- MODULE SkillPicker -----------------------------
(***************************************************************************)
(* The picker that asks which Skills of a listing to install               *)
(* (native/src/select_ui.rs).  Choices are numbered; the filter is the set *)
(* of choices that it matches, or NoFilter.                                *)
(***************************************************************************)
EXTENDS Sorting, Sequences

CONSTANTS
  Listed,       \* how many Skills the listing has
  FilterMatches, \* what a filter that can be typed matches
  MaxFilter     \* 64: the characters of a filter

PickerAssumption == Listed \in Nat /\ MaxFilter \in Nat /\ FilterMatches \subseteq SUBSET (1..Listed)

Keys == {"up", "down", "toggle", "toggleAll", "confirm", "cancel", "quit", "filterStart", "filterChar",
         "filterBackspace", "filterDone"}
NoFilter == [length |-> 0, matches |-> 1..Listed]
NoOutcome == [type |-> "none", chosen |-> {}]

VARIABLES chosen, cursor, filter, filtering, outcome,
          waiting   \* the terminal still has keys typed for the command before
vars == <<chosen, cursor, filter, filtering, outcome, waiting>>

(* With fewer than two Skills there is nothing to ask. *)
Init ==
  /\ chosen = {} /\ cursor = 0 /\ filter = NoFilter /\ filtering = FALSE /\ waiting \in BOOLEAN
  /\ outcome = IF Listed < 2 THEN [type |-> "chose", chosen |-> 1..Listed] ELSE NoOutcome

(* The positions that the filter shows, in the order of the list. *)
Visible(f) == InOrder(f.matches)

(* What was typed before is no consent. *)
Drain == waiting /\ waiting' = FALSE /\ UNCHANGED <<chosen, cursor, filter, filtering, outcome>>

(* picker_key: what the keys mean depends on whether a filter is typed. *)
Takes(key) ==
  /\ outcome = NoOutcome /\ ~waiting
  /\ key \in IF filtering THEN {"up", "down", "filterBackspace", "filterDone", "cancel", "filterChar", "quit"}
             ELSE {"up", "down", "toggle", "toggleAll", "filterStart", "confirm", "quit", "cancel"}

Move ==
  \E key \in {"up", "down"} :
    /\ Takes(key)
    /\ LET length == Len(Visible(filter))
       IN cursor' = IF length = 0 THEN 0
                    ELSE IF key = "down" THEN (cursor + 1) % length
                    ELSE (cursor + length - 1) % length
    /\ UNCHANGED <<chosen, filter, filtering, outcome, waiting>>

Toggle ==
  /\ Takes("toggle")
  /\ LET visible == Visible(filter)
     IN chosen' = IF cursor >= Len(visible) THEN chosen
                  ELSE LET position == visible[cursor + 1]
                       IN IF position \in chosen THEN chosen \ {position} ELSE chosen \cup {position}
  /\ UNCHANGED <<cursor, filter, filtering, outcome, waiting>>

ToggleAll ==
  /\ Takes("toggleAll")
  /\ chosen' = IF filter.matches \subseteq chosen THEN chosen \ filter.matches ELSE chosen \cup filter.matches
  /\ UNCHANGED <<cursor, filter, filtering, outcome, waiting>>

Confirm ==
  /\ Takes("confirm") /\ outcome' = [type |-> "chose", chosen |-> chosen]
  /\ UNCHANGED <<chosen, cursor, filter, filtering, waiting>>

Quit ==
  /\ Takes("quit") /\ outcome' = [type |-> "cancelled", chosen |-> {}]
  /\ UNCHANGED <<chosen, cursor, filter, filtering, waiting>>

(* Escape leaves the filter first, and cancels when there is none.  In a   *)
(* terminal that is too small it quits.                                    *)
Cancel ==
  /\ Takes("cancel")
  /\ \/ /\ filtering \/ filter.length > 0
        /\ filtering' = FALSE /\ filter' = NoFilter
        /\ cursor' = IF cursor >= Listed THEN Listed - 1 ELSE cursor   \* clamp_cursor
        /\ UNCHANGED outcome
     \/ outcome' = [type |-> "cancelled", chosen |-> {}]
        /\ UNCHANGED <<filtering, filter, cursor>>
  /\ UNCHANGED <<chosen, waiting>>

StartFilter == Takes("filterStart") /\ filtering' = TRUE /\ UNCHANGED <<chosen, cursor, filter, outcome, waiting>>
EndFilter == Takes("filterDone") /\ filtering' = FALSE /\ UNCHANGED <<chosen, cursor, filter, outcome, waiting>>

(* Faulty variant: the cursor stays where it was in the longer list. *)
TypeInPlace ==
  /\ Takes("filterChar") /\ filter.length < MaxFilter
  /\ \E m \in FilterMatches : m \subseteq filter.matches
                              /\ filter' = [length |-> filter.length + 1, matches |-> m]
  /\ UNCHANGED <<chosen, cursor, filtering, outcome, waiting>>

TypeFilter ==
  /\ Takes("filterChar") /\ filter.length < MaxFilter
  /\ \E m \in FilterMatches : m \subseteq filter.matches
                              /\ filter' = [length |-> filter.length + 1, matches |-> m]
  /\ cursor' = 0
  /\ UNCHANGED <<chosen, filtering, outcome, waiting>>

EraseFilter ==
  /\ Takes("filterBackspace") /\ cursor' = 0
  /\ \E m \in FilterMatches \cup {1..Listed} :
       /\ filter.matches \subseteq m
       /\ filter' = IF filter.length <= 1 THEN NoFilter ELSE [length |-> filter.length - 1, matches |-> m]
  /\ UNCHANGED <<chosen, filtering, outcome, waiting>>

Next ==
  \/ Drain \/ Move \/ Toggle \/ ToggleAll \/ Confirm \/ Quit \/ Cancel
  \/ StartFilter \/ EndFilter \/ TypeFilter \/ EraseFilter

Spec == Init /\ [][Next]_vars

TypeOK ==
  /\ chosen \subseteq 1..Listed /\ filter.length \in 0..MaxFilter
  /\ cursor \in 0..(IF filter.matches = {} THEN 0 ELSE Cardinality(filter.matches) - 1)

(* Skills that the filter hides keep their mark, and one that is shown can *)
(* change only under the cursor or together with all that are shown: what  *)
(* is installed is what the user saw and chose (counts).                   *)
ChangesOnlyWhatIsShown ==
  [][LET changed == (chosen \ chosen') \cup (chosen' \ chosen)
     IN /\ changed \subseteq filter.matches
        /\ \/ Cardinality(changed) <= 1
           \/ filter.matches \subseteq chosen' \/ filter.matches \cap chosen' = {}]_vars

=============================================================================
