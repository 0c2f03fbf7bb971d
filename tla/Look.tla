-------------------------------- MODULE Look --------------------------------
(***************************************************************************)
(* An advisor's look (app/src/avatars/store.ts, appearance.ts): kept in    *)
(* the browser's storage, which the tabs share, and edited in the Mac      *)
(* inspector and the phone's sheet (components/appearance-editor.tsx,      *)
(* appearance-sheet.tsx, swatch-row.tsx).  Every edit is saved at once; a  *)
(* tab learns of another's by a storage event.                             *)
(*                                                                         *)
(* Of the look's nine fields three stand for their kinds: a colour (shell, *)
(* "odd" is no swatch), a preset or a colour (screen) and a number kept in *)
(* range (speed).                                                          *)
(***************************************************************************)
EXTENDS Integers, FiniteSets

CONSTANTS
    Windows,         \* the browser's tabs
    MaxEdits,        \* bound: edits, resets and openings of the sheet
    MaxRefusals      \* bound: writes the storage refuses
ASSUME LookAssumption == MaxEdits \in Nat /\ MaxRefusals \in Nat

VARIABLES
    raw,        \* what the storage has for the advisor
    seen,       \* the look each tab shows, on every robot of the advisor
    owed,       \* the tab has a storage event on its way
    sheet,      \* the sheet of each tab: closed, or the look it opened with
    custom,     \* the rows whose custom option was clicked, and no preset since
    edits, refusals

kvars == <<raw, seen, owed, sheet, custom, edits, refusals>>

---------------------------------------------------------------------------
(* Looks and their text (appearance.ts) *)

Shells == {"blue", "red", "odd"}          \* "red" is the advisor's own
Swatches == Shells \ {"odd"}
Screens == {"tinted", "mint", "odd"}
Presets == Screens \ {"odd"}
Rows == {"shell", "screen"}               \* the rows that end in a custom colour
MaxSpeed == 2
Looks == [shell : Shells, screen : Screens, speed : 0..MaxSpeed]

defaultAppearance == [shell |-> "red", screen |-> "tinted", speed |-> 1]
isDefault(look) == look = defaultAppearance

Text(kind, version, shell, screen, speed) ==
    [kind |-> kind, version |-> version, shell |-> shell, screen |-> screen, speed |-> speed]
NoText == Text("none", 1, "", "", 0)
Unreadable == Text("garbled", 1, "", "", 0)
serializeAppearance(look) == Text("config", 1, look.shell, look.screen, look.speed)

oneOf(value, options, fallback) == IF value \in options THEN value ELSE fallback
NotANumber == -9
clamp(speed) ==
    IF speed = NotANumber THEN defaultAppearance.speed
    ELSE IF speed > MaxSpeed THEN MaxSpeed ELSE IF speed < 0 THEN 0 ELSE speed

parseAppearance(text) ==
    IF text.kind # "config" \/ text.version # 1 THEN defaultAppearance
    ELSE [shell |-> oneOf(text.shell, Shells, defaultAppearance.shell),
          screen |-> oneOf(text.screen, Screens, defaultAppearance.screen),
          speed |-> clamp(text.speed)]

\* What may be found there: nothing, junk, a later version's, one with fields that are wrong.
Found == {NoText, Unreadable, Text("config", 2, "blue", "mint", 0),
          Text("config", 1, "#12", "mint", 7), Text("config", 1, "blue", "odd", NotANumber)}

---------------------------------------------------------------------------
(* What the editor shows of a look *)

\* A row of swatches or pills: the option checked.
Checked(value, presets, chosen) == IF value \notin presets \/ chosen THEN "custom" ELSE value

\* Arrow keys go round the row, Home and End to its ends.
Keyed == {"ArrowRight", "ArrowDown", "ArrowLeft", "ArrowUp", "Home", "End", "another"}
radioKeyDown(key, index, count) ==
    CASE key \in {"ArrowRight", "ArrowDown"} -> (index + 1) % count
      [] key \in {"ArrowLeft", "ArrowUp"} -> (index - 1 + count) % count
      [] key = "Home" -> 0
      [] key = "End" -> count - 1
      [] OTHER -> index

AppearanceControls(look, chosen) ==
    [shell |-> Checked(look.shell, Swatches, "shell" \in chosen),
     screen |-> Checked(look.screen, Presets, "screen" \in chosen),
     reset |-> ~isDefault(look)]
Controls(t) == AppearanceControls(seen[t], custom[t])

---------------------------------------------------------------------------
(* The store (store.ts).  A write may be refused; the tab looks again either *)
(* way, and the other tabs are told of what changed.                         *)

Closed == [open |-> FALSE, with |-> defaultAppearance]

LookInit ==
    /\ raw \in Found
    /\ seen = [t \in Windows |-> parseAppearance(raw)] /\ owed = [t \in Windows |-> FALSE]
    /\ sheet = [t \in Windows |-> Closed] /\ custom = [t \in Windows |-> {}]
    /\ edits = 0 /\ refusals = 0

Put(t, text) ==
    \/ /\ raw' = text
       /\ owed' = [u \in Windows |-> owed[u] \/ (u # t /\ text # raw)]
       /\ UNCHANGED refusals
    \/ /\ refusals < MaxRefusals /\ refusals' = refusals + 1
       /\ UNCHANGED <<raw, owed>>

\* The tab itself is told by the store's own listeners.
notify(t) == seen' = [seen EXCEPT ![t] = parseAppearance(raw')]

saveAppearance(t, look) == Put(t, serializeAppearance(look)) /\ notify(t)

resetQuiet(t) == Put(t, NoText) /\ UNCHANGED seen        \* mutant: nobody is told

resetAppearance(t) == Put(t, NoText) /\ notify(t)

StorageEvent(t) ==
    /\ owed[t] /\ owed' = [owed EXCEPT ![t] = FALSE]
    /\ UNCHANGED <<raw, sheet, custom, edits, refusals>>
    /\ notify(t)

---------------------------------------------------------------------------
(* The editors *)

Acts == edits < MaxEdits /\ edits' = edits + 1

\* One field of the look as the tab shows it.
update(t, look) == Acts /\ saveAppearance(t, look) /\ UNCHANGED sheet

\* A preset is picked in its row; a colour in the box that a row shows under its last option.
PickSwatch(t, shell) ==
    /\ shell \in Swatches \/ Controls(t).shell = "custom"
    /\ update(t, [seen[t] EXCEPT !.shell = shell])
    /\ custom' = [custom EXCEPT ![t] = IF shell \in Swatches THEN @ \ {"shell"} ELSE @]
PickScreen(t, screen) ==
    /\ screen \in Presets \/ Controls(t).screen = "custom"
    /\ update(t, [seen[t] EXCEPT !.screen = screen])
    /\ custom' = [custom EXCEPT ![t] = IF screen \in Presets THEN @ \ {"screen"} ELSE @]
PickCustom(t, row) ==
    /\ row \notin custom[t] /\ custom' = [custom EXCEPT ![t] = @ \cup {row}]
    /\ UNCHANGED <<raw, seen, owed, sheet, edits, refusals>>
PickSpeed(t, speed) == update(t, [seen[t] EXCEPT !.speed = speed]) /\ UNCHANGED custom

Reset(t) ==
    /\ Acts /\ Controls(t).reset /\ resetAppearance(t)
    /\ UNCHANGED <<sheet, custom>>

\* The phone's sheet: opened with the look stored; Cancel, Escape or a tap outside restore it.
OpenSheet(t) ==
    /\ Acts /\ ~sheet[t].open
    /\ sheet' = [sheet EXCEPT ![t] = [open |-> TRUE, with |-> parseAppearance(raw)]]
    /\ custom' = [custom EXCEPT ![t] = {}]
    /\ UNCHANGED <<raw, seen, owed, refusals>>

restore(t, look) == IF isDefault(look) THEN resetAppearance(t) ELSE saveAppearance(t, look)

CloseSheet(t, keep) ==
    /\ sheet[t].open /\ sheet' = [sheet EXCEPT ![t] = Closed]
    /\ IF keep THEN UNCHANGED <<raw, seen, owed, refusals>> ELSE restore(t, sheet[t].with)
    /\ UNCHANGED <<custom, edits>>

LookNext ==
    \E t \in Windows :
        \/ StorageEvent(t) \/ Reset(t) \/ OpenSheet(t)
        \/ \E row \in Rows : PickCustom(t, row)
        \/ \E shell \in Shells : PickSwatch(t, shell)
        \/ \E screen \in Screens : PickScreen(t, screen)
        \/ \E speed \in 0..MaxSpeed : PickSpeed(t, speed)
        \/ \E keep \in BOOLEAN : CloseSheet(t, keep)

LookSpec == LookInit /\ [][LookNext]_kvars

---------------------------------------------------------------------------
(* What must hold *)

LookTypeOK ==
    /\ seen \in [Windows -> Looks] /\ owed \in [Windows -> BOOLEAN] /\ custom \in [Windows -> SUBSET Rows]
    /\ \A t \in Windows : sheet[t].open \in BOOLEAN /\ sheet[t].with \in Looks
    /\ \A key \in Keyed, count \in 1..3 : \A index \in 0..(count - 1) : radioKeyDown(key, index, count) \in 0..(count - 1)
    /\ raw \in Found \cup {NoText} \cup {serializeAppearance(look) : look \in Looks}

\* A tab that has been told everything shows the look that is stored.
RobotsFollow == \A t \in Windows : ~owed[t] => seen[t] = parseAppearance(raw)
=============================================================================
