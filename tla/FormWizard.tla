------------------------------ MODULE FormWizard ------------------------------
(***************************************************************************)
(* The engine every form of openhammer runs on: a list of fields seeded    *)
(* with the values in force, answers from a terminal or from flags, and    *)
(* the reduction of the answers to one text per field (tui/wizard.ts,      *)
(* tui/prompts.ts, tui/wizards/section.ts).                                *)
(*                                                                         *)
(* A text is the sequence of its entries between separators (commas, or    *)
(* newlines): the empty one has a single empty entry, "," has two.  An     *)
(* entry may have blanks around it: " " is nothing else, " c" stands for a *)
(* line "c" with a blank before it, which may go on with the command of    *)
(* the line before.  A yes or no is the text "true" or "false".  No field  *)
(* of these forms is required.                                             *)
(***************************************************************************)
EXTENDS Integers, Sequences, FiniteSets, TLC

Blank == <<"">>
NoDefault == <<>>

\* What a filter leaves of a list: its entries at some positions, in their order.
Picked(list, positions) ==
  [n \in 1..Cardinality(positions) |->
     list[CHOOSE i \in positions : Cardinality({j \in positions : j <= i}) = n]]

\* trim(), of an entry and of every entry of a text.
Trim(entry) == CASE entry = " " -> "" [] entry = " c" -> "c" [] entry = " other" -> "other" [] OTHER -> entry
Trimmed(text) == [i \in DOMAIN text |-> Trim(text[i])]

\* The lists that ride on text fields: split, trimmed, the blank ones dropped.
EntriesOf(text) == Picked(Trimmed(text), {i \in DOMAIN text : Trim(text[i]) # ""})
TextOf(list) == IF list = <<>> THEN Blank ELSE list

TextField == [kind |-> "text", options |-> {}, default |-> NoDefault]
SelectField(options) == [kind |-> "select", options |-> options, default |-> NoDefault]
ConfirmField == [kind |-> "confirm", options |-> {"true", "false"}, default |-> NoDefault]

\* Broken variant: the seed is not taken into the fields.
SeededNot(fields, seed) == fields

Seeded(fields, seed) ==
  [k \in DOMAIN fields |->
     IF k \in DOMAIN seed THEN [fields[k] EXCEPT !.default = seed[k]] ELSE fields[k]]

\* A prompt the operator only confirms answers its default.
Untouched(f) == IF f.default = NoDefault THEN Blank ELSE f.default

\* At a terminal the options are the only choice.
Offered(f, text) == f.kind = "text" \/ \E o \in f.options : text = <<o>>
TerminalAnswers(fields, key, text) == [k \in DOMAIN fields |-> IF k = key THEN text ELSE Untouched(fields[k])]

\* From flags anything may come; what no flag names falls back to the default.
FlagAnswers(fields, key, text) ==
  [k \in DOMAIN fields |->
     IF k # key THEN Untouched(fields[k])
     ELSE IF fields[k].kind = "confirm" /\ text # <<"true">> THEN <<"false">> ELSE text]

\* An answer is trimmed; a blank one is the default's as it stands, and blank
\* without one.  (Trimming a list's text entry by entry changes nothing of what
\* its parser makes of it.)
Reduced(fields, raw) ==
  [k \in DOMAIN fields |->
     IF Trimmed(raw[k]) # Blank THEN Trimmed(raw[k])
     ELSE IF fields[k].default # NoDefault THEN fields[k].default ELSE Blank]
=============================================================================
