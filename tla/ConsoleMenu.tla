----------------------------- MODULE ConsoleMenu -----------------------------
(***************************************************************************)
(* The console menu of customers.cpp as a process that reads its entries   *)
(* line by line.  A line that should be a number goes through std::stoi,   *)
(* which takes what follows a number for nothing and throws when there is  *)
(* none; nothing catches the exception, so the program ends in the middle  *)
(* of the entry.  Nothing looks for the end of the input either:           *)
(* std::getline hands over what there is of the last line, and from there  *)
(* on every line is empty.  Other programs change the table between two    *)
(* lines.                                                                  *)
(*                                                                         *)
(* A customer is [id, text, region]; text stands for name, email and       *)
(* address, which are read one after the other and treated alike.          *)
(***************************************************************************)
EXTENDS Naturals

CONSTANTS
    Texts,       \* what may be typed for a name, an email or an address
    Blank,       \* the empty line
    Regions,     \* region numbers
    MaxRowid,    \* bound: customer ids
    MaxMenuRuns  \* bound: starts of the menu

ASSUME ConsoleMenuAssumption ==
    /\ MaxRowid \in Nat /\ MaxMenuRuns \in Nat
    /\ Regions \subseteq Nat
    /\ Blank \notin Texts \cup Nat

VARIABLES
    customers, lastId,  \* the table and the last id handed out
    menu                \* the menu: pc, the entry it is in, the fields read so far,
                        \* eof, runs, and (history) the line of this entry in which
                        \* the input ended and whether the entry has written

menuVars == <<customers, lastId, menu>>

Rowids == 1..MaxRowid
Entries == {"list", "filter", "add", "delete", "update"}

\* What std::getline may leave in the string: text, what std::stoi takes for a
\* number (as it was typed, cut short, or with more behind it), or nothing.
Lines == Texts \cup Rowids \cup Regions \cup {Blank}
IsNumber(line) == line \in Rowids \cup Regions

Idle == [pc |-> "off", entry |-> "none", id |-> 0, text |-> Blank, region |-> Blank,
         eof |-> FALSE, runs |-> 0, broken |-> "no", wrote |-> FALSE]

MenuTypeOK ==
    /\ customers \subseteq [id : Rowids, text : Texts \cup {Blank}, region : Nat]
    /\ lastId \in 0..MaxRowid
    /\ menu \in [pc : {"off", "menu", "id", "text", "region", "statement", "terminated"},
                entry : Entries \cup {"none"}, id : Nat, text : Texts \cup {Blank},
                region : Rowids \cup Regions \cup {Blank}, eof : BOOLEAN,
                runs : 0..MaxMenuRuns, wrote : BOOLEAN,
                broken : {"no", "menu", "id", "text", "region"}]

MenuInit == customers = {} /\ lastId = 0 /\ menu = Idle

-----------------------------------------------------------------------------
(* Reading *)

Start ==
    /\ menu.pc \in {"off", "terminated"} /\ menu.runs < MaxMenuRuns
    /\ menu' = [Idle EXCEPT !.pc = "menu", !.runs = menu.runs + 1]
    /\ UNCHANGED <<customers, lastId>>

\* One line.  The last one ends with the input: it is what there is of it, and
\* behind it every line is empty.
Read(line, eof) == menu.eof => line = Blank /\ eof

\* The line of the entry in which the input ended.
Broken(eof) == IF eof /\ ~menu.eof THEN menu.pc ELSE menu.broken

\* The first line an entry asks for.
FirstField(entry) ==
    CASE entry = "list" -> "statement"
      [] entry = "filter" -> "region"
      [] entry = "add" -> "text"
      [] entry \in {"delete", "update"} -> "id"

Choose ==
    /\ menu.pc = "menu" /\ ~menu.eof
    /\ \E entry \in Entries, eof \in BOOLEAN :
         menu' = [Idle EXCEPT !.pc = FirstField(entry), !.entry = entry, !.runs = menu.runs,
                              !.eof = eof, !.broken = IF eof THEN "menu" ELSE "no"]
    /\ UNCHANGED <<customers, lastId>>

\* "Invalid option." and the menu again: also at the end of the input, for ever.
ChooseInvalid ==
    /\ menu.pc = "menu"
    /\ \E eof \in BOOLEAN : Read(Blank, eof) /\ menu' = [menu EXCEPT !.eof = eof]
    /\ UNCHANGED <<customers, lastId>>

ChooseExit ==
    /\ menu.pc = "menu" /\ ~menu.eof
    /\ \E eof \in BOOLEAN : menu' = [menu EXCEPT !.pc = "off", !.eof = eof]
    /\ UNCHANGED <<customers, lastId>>

\* The line is read, and this comes next.
ReadOn(eof, next) == [menu EXCEPT !.pc = next, !.eof = eof, !.broken = Broken(eof)]

\* The exception ends the program.
Terminate(eof) == menu' = ReadOn(eof, "terminated")

\* std::stoi of the customer's number
ReadId ==
    /\ menu.pc = "id"
    /\ \E line \in Lines, eof \in BOOLEAN :
         /\ Read(line, eof)
         /\ IF IsNumber(line)
            THEN menu' = [ReadOn(eof, IF menu.entry = "update" THEN "text" ELSE "statement")
                             EXCEPT !.id = line]
            ELSE Terminate(eof)
    /\ UNCHANGED <<customers, lastId>>

ReadText ==
    /\ menu.pc = "text"
    /\ \E line \in Texts \cup {Blank}, eof \in BOOLEAN :
         /\ Read(line, eof)
         /\ menu' = [ReadOn(eof, "region") EXCEPT !.text = line]
    /\ UNCHANGED <<customers, lastId>>

\* Mutant of ReadRegion: an empty line is taken for "no region" in add, too.
ReadRegionOptional ==
    /\ menu.pc = "region"
    /\ \E line \in Lines, eof \in BOOLEAN :
         /\ Read(line, eof)
         /\ IF IsNumber(line) \/ line = Blank
            THEN menu' = [ReadOn(eof, "statement") EXCEPT !.region = line]
            ELSE Terminate(eof)
    /\ UNCHANGED <<customers, lastId>>

\* std::stoi of the region; update takes an empty line for "leave it", and looks
\* at the number when its statement is prepared: if it cannot be, never.
ReadRegion ==
    /\ menu.pc = "region"
    /\ \E line \in Lines, eof \in BOOLEAN :
         /\ Read(line, eof)
         /\ IF IsNumber(line) \/ (menu.entry = "update" /\ line = Blank)
            THEN menu' = [ReadOn(eof, "statement") EXCEPT !.region = line]
            ELSE \/ Terminate(eof)
                 \/ /\ menu.entry = "update"
                    /\ menu' = ReadOn(eof, "menu")
    /\ UNCHANGED <<customers, lastId>>

-----------------------------------------------------------------------------
(* Statements *)

BackToMenu(wrote) == menu' = [menu EXCEPT !.pc = "menu", !.wrote = wrote]

\* A list, a statement that could not be prepared or stepped, and an update of
\* nothing, whose text is no SQL.
StatementWritesNothing ==
    /\ menu.pc = "statement"
    /\ BackToMenu(FALSE)
    /\ UNCHANGED <<customers, lastId>>

Add ==
    /\ menu.pc = "statement" /\ menu.entry = "add"
    /\ lastId < MaxRowid
    /\ customers' = customers \cup {[id |-> lastId + 1, text |-> menu.text, region |-> menu.region]}
    /\ lastId' = lastId + 1
    /\ BackToMenu(TRUE)

Delete ==
    /\ menu.pc = "statement" /\ menu.entry = "delete"
    /\ customers' = {c \in customers : c.id # menu.id}
    /\ BackToMenu(TRUE)
    /\ UNCHANGED lastId

\* SET names the columns that were typed.
Updated(c) ==
    [c EXCEPT !.text = IF menu.text = Blank THEN @ ELSE menu.text,
              !.region = IF menu.region = Blank THEN @ ELSE menu.region]

Update ==
    /\ menu.pc = "statement" /\ menu.entry = "update"
    /\ menu.text # Blank \/ menu.region # Blank
    /\ customers' = {IF c.id = menu.id THEN Updated(c) ELSE c : c \in customers}
    /\ BackToMenu(TRUE)
    /\ UNCHANGED lastId

Killed ==
    /\ menu.pc \notin {"off", "terminated"}
    /\ menu' = [menu EXCEPT !.pc = "terminated"]
    /\ UNCHANGED <<customers, lastId>>

OtherProgram ==
    /\ \/ /\ lastId < MaxRowid
          /\ \E t \in Texts, r \in Regions :
               customers' = customers \cup {[id |-> lastId + 1, text |-> t, region |-> r]}
          /\ lastId' = lastId + 1
       \/ /\ \E id \in Rowids : customers' = {c \in customers : c.id # id}
          /\ UNCHANGED lastId
    /\ UNCHANGED menu

MenuStep ==
    \/ Choose \/ ChooseInvalid \/ ChooseExit
    \/ ReadId \/ ReadText \/ ReadRegion
    \/ StatementWritesNothing \/ Add \/ Delete \/ Update

MenuNext == Start \/ MenuStep \/ Killed \/ OtherProgram

MenuSpec == MenuInit /\ [][MenuNext]_menuVars

\* A program that is scheduled goes on; the user types something, or nothing is
\* left to type.
FairMenuSpec == MenuSpec /\ WF_menuVars(MenuStep)

-----------------------------------------------------------------------------
(* Properties *)

\* The lines an entry may end in and be carried out all the same.
EndsIn(entry) ==
    CASE entry = "add"    -> {"region"}
      [] entry = "delete" -> {"id"}
      [] entry = "update" -> {"text", "region"}
      [] OTHER            -> {}

\* An entry in which the input ends is carried out only with a number in the line
\* that breaks off (the customer of a delete, the region of an add, which may then
\* be another than was meant) or, for an update, behind the line that says which
\* customer; an entry that lacks its last number, or was only chosen, writes
\* nothing.
TruncatedEntryWritesLittle ==
    menu.wrote /\ menu.broken # "no" => menu.broken \in EndsIn(menu.entry)

\* The end of the input ends the program by an exception or leaves it printing
\* its menu for ever, until somebody kills it, unless the last line is "6" itself:
\* no entry gets stuck, and no line that is not there is taken for "6. Exit".
EndOfInputNeverExits ==
    menu.eof /\ menu.pc # "off" ~> (menu.pc = "terminated" \/ [](menu.pc = "menu"))

=============================================================================
