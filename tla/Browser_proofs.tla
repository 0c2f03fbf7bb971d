-------------------------- MODULE Browser_proofs ---------------------------
(***************************************************************************)
(* What the browser works out by itself, for every value of the constants: *)
(* the form that starts a run starts what it shows, a robot that is to     *)
(* stop speaking looks again in time, every page says what is unknown and, *)
(* once it has loaded, exactly what is so, the robots follow the look that *)
(* is stored, and every line of a report is shown.                         *)
(***************************************************************************)
EXTENDS MCBrowser, UseApi_proofs, SequenceTheorems, FiniteSetTheorems, WellFoundedInduction

\* A set of naturals has a least element.
LEMMA LeastNatural ==
  ASSUME NEW S \in SUBSET Nat, S # {}
  PROVE  \E m \in S : \A n \in S : m <= n
<1>1. PICK m \in S : \A n \in S : ~(<<n, m>> \in OpToRel(<, Nat))
  BY NatLessThanWellFounded, WFMin
<1>2. \A n \in S : ~(n < m)
  BY <1>1 DEF OpToRel
<1> QED
  BY <1>2

\* A step that looks only at what is smaller has a fixed point.
LooksBack(step, D, R, size) ==
  \A F, G \in [D -> R], x \in D :
    (\A y \in D : size[y] < size[x] => F[y] = G[y]) => step[F][x] = step[G][x]

\* A function that is right as far as a size.
Upto(step, D, size, F, n) == \A x \in D : size[x] < n => F[x] = step[F][x]

\* Two of them are the same as far as both are right.
Agree(step, D, R, size) ==
  \A n, k \in Nat, F, G \in [D -> R] : Upto(step, D, size, F, n) /\ Upto(step, D, size, G, k) =>
    \A x \in D : size[x] < n /\ size[x] < k => F[x] = G[x]

LEMMA UptoAgree ==
  ASSUME NEW D, NEW R, NEW size \in [D -> Nat], NEW step \in [[D -> R] -> [D -> R]],
         LooksBack(step, D, R, size)
  PROVE  Agree(step, D, R, size)
<1> SUFFICES ASSUME NEW n \in Nat, NEW k \in Nat, NEW F \in [D -> R], NEW G \in [D -> R],
                    Upto(step, D, size, F, n), Upto(step, D, size, G, k)
             PROVE  \A x \in D : size[x] < n /\ size[x] < k => F[x] = G[x]
  BY DEF Agree
<1> DEFINE Bad == {x \in D : size[x] < n /\ size[x] < k /\ F[x] # G[x]}
           Sizes == {size[x] : x \in Bad}
<1> SUFFICES ASSUME Bad # {} PROVE FALSE
  OBVIOUS
<1>1. Sizes \in SUBSET Nat /\ Sizes # {}
  <2>1. \A x \in Bad : size[x] \in Nat
    OBVIOUS
  <2> HIDE DEF Bad
  <2> QED
    BY <2>1
<1> HIDE DEF Sizes
<1>2. PICK m \in Sizes : \A i \in Sizes : m <= i
  BY <1>1, LeastNatural
<1>3. PICK x \in Bad : m = size[x]
  BY <1>2 DEF Sizes
<1>4. \A y \in Bad : size[x] <= size[y]
  BY <1>2, <1>3 DEF Sizes
<1>5. ASSUME NEW y \in D, size[y] < size[x] PROVE F[y] = G[y]
  <2>1. size[x] \in Nat /\ size[y] \in Nat /\ size[y] < n /\ size[y] < k
    BY <1>3, <1>5
  <2> QED
    BY <1>4, <1>5, <2>1
<1>6. step[F][x] = step[G][x]
  BY <1>3, <1>5 DEF LooksBack
<1> QED
  BY <1>3, <1>6 DEF Upto

LEMMA UptoExists ==
  ASSUME NEW D, NEW R, R # {}, NEW size \in [D -> Nat], NEW step \in [[D -> R] -> [D -> R]],
         LooksBack(step, D, R, size)
  PROVE  \A n \in Nat : \E F \in [D -> R] : Upto(step, D, size, F, n)
<1> DEFINE Bad == {n \in Nat : ~ \E F \in [D -> R] : Upto(step, D, size, F, n)}
<1> SUFFICES ASSUME Bad # {} PROVE FALSE
  OBVIOUS
<1>1. PICK n \in Bad : \A i \in Bad : n <= i
  <2>1. Bad \in SUBSET Nat
    OBVIOUS
  <2> HIDE DEF Bad
  <2> QED
    BY <2>1, LeastNatural
<1>2. n # 0
  <2>1. PICK r \in R : TRUE
    OBVIOUS
  <2>2. [x \in D |-> r] \in [D -> R] /\ Upto(step, D, size, [x \in D |-> r], 0)
    BY DEF Upto
  <2> QED
    BY <2>2
<1>3. n - 1 \in Nat /\ n - 1 \notin Bad
  BY <1>1, <1>2
<1>4. PICK F \in [D -> R] : Upto(step, D, size, F, n - 1)
  BY <1>3
<1>5. step[F] \in [D -> R]
  OBVIOUS
<1>6. ASSUME NEW x \in D, size[x] < n PROVE step[F][x] = step[step[F]][x]
  <2>1. ASSUME NEW y \in D, size[y] < size[x] PROVE F[y] = step[F][y]
    <3>1. size[y] \in Nat /\ size[x] \in Nat /\ size[y] < n - 1
      BY <1>3, <1>6, <2>1
    <3> QED
      BY <1>4, <3>1 DEF Upto
  <2> QED
    BY <1>5, <2>1 DEF LooksBack
<1>7. Upto(step, D, size, step[F], n)
  BY <1>6 DEF Upto
<1> QED
  BY <1>1, <1>5, <1>7

HasFixed(step, D, R) == \E F \in [D -> R] : F = step[F]

LEMMA FixedPoint ==
  ASSUME NEW D, NEW R, R # {}, NEW size, size \in [D -> Nat], NEW step, step \in [[D -> R] -> [D -> R]],
         LooksBack(step, D, R, size)
  PROVE  HasFixed(step, D, R)
<1>0. Agree(step, D, R, size)
  BY UptoAgree
<1> DEFINE Right(n) == CHOOSE F \in [D -> R] : Upto(step, D, size, F, n)
           H == [x \in D |-> Right(size[x] + 1)[x]]
<1>1. \A n \in Nat : Right(n) \in [D -> R] /\ Upto(step, D, size, Right(n), n)
  BY UptoExists
<1> HIDE DEF Right
<1>2. H \in [D -> R]
  <2>1. \A x \in D : size[x] + 1 \in Nat
    OBVIOUS
  <2>2. \A x \in D : Right(size[x] + 1)[x] \in R
    BY <1>1, <2>1
  <2> QED
    BY <2>2
<1>3. ASSUME NEW x \in D PROVE H[x] = step[H][x]
  <2> DEFINE n == size[x] + 1
             G == Right(n)
  <2>1. n \in Nat /\ size[x] \in Nat /\ size[x] < n
    OBVIOUS
  <2>2. G \in [D -> R] /\ Upto(step, D, size, G, n)
    BY <1>1, <2>1
  <2>3. ASSUME NEW y \in D, size[y] < size[x] PROVE H[y] = G[y]
    <3>1. size[y] + 1 \in Nat /\ size[y] < size[y] + 1 /\ size[y] < n
      BY <2>1, <2>3
    <3>2. Right(size[y] + 1) \in [D -> R] /\ Upto(step, D, size, Right(size[y] + 1), size[y] + 1)
      BY <1>1, <3>1
    <3>3. Right(size[y] + 1)[y] = G[y]
      <4> DEFINE k == size[y] + 1
                 E == Right(k)
      <4>1. k \in Nat /\ E \in [D -> R] /\ Upto(step, D, size, E, k) /\ size[y] < k
        BY <3>1, <3>2
      <4> HIDE DEF G, n, k, E
      <4>2. \A z \in D : size[z] < k /\ size[z] < n => E[z] = G[z]
        BY <1>0, <2>1, <2>2, <4>1 DEF Agree
      <4>3. E[y] = G[y]
        BY <3>1, <4>1, <4>2
      <4> QED
        BY <4>3 DEF E, k
    <3> QED
      BY <3>3
  <2>4. H[x] = G[x]
    OBVIOUS
  <2> HIDE DEF G, H, n
  <2>5. G[x] = step[G][x]
    BY <2>1, <2>2 DEF Upto
  <2>6. step[H][x] = step[G][x]
    BY <1>2, <2>2, <2>3 DEF LooksBack
  <2> QED
    BY <2>4, <2>5, <2>6
<1> HIDE DEF H
<1>4. step[H] \in [D -> R]
  BY <1>2
<1>5. H = step[H]
  BY <1>2, <1>3, <1>4
<1> QED
  BY <1>2, <1>5 DEF HasFixed

---------------------------------------------------------------------------
(* Launch.  StartsWhatItShows speaks of the moment of the click: that the   *)
(* fields stand on the choice's engine then (FieldsFollow) is what every    *)
(* change of the choice, from any of its five sources, has to keep.         *)

\* A choice: none, or a model of its engine, or none of its engine's yet.
RunChoices == {NoChoice} \cup UNION {[engine : {e}, model : ModelsOf(e) \cup {NoModel}] : e \in Installed}

LaunchTypes ==
  /\ usable \subseteq Installed
  /\ panel \in [mounted : BOOLEAN, picked : RunChoices, subject : Subjects \cup {""}, busy : BOOLEAN, error : BOOLEAN]
  /\ stored \in RunChoices
  /\ offered.subject \in Subjects \cup {""}
  /\ \A e \in Installed : offered.models[e] \in ModelsOf(e) \cup {NoModel}

FieldsFollow == fields # NoFields => Choice # NoChoice /\ fields.engine = Choice.engine

LaunchInv == LaunchTypes /\ FieldsFollow /\ StartsWhatItShows

\* The first usable engine is one that is usable.
LEMMA FirstIsUsable ==
  ASSUME usable \subseteq Installed, usable # {}
  PROVE  FirstUsable \in usable
<1> DEFINE I == {i \in 1..Len(EngineNames) : EngineNames[i] \in usable}
<1>1. EngineNames \in Seq(STRING) /\ DOMAIN EngineNames = 1..Len(EngineNames)
  BY LaunchAssumption
<1>2. I # {}
  BY <1>1 DEF Installed, Range
<1>3. I \subseteq Nat
  BY <1>1
<1> HIDE DEF I
<1>4. \E i \in I : \A j \in I : i <= j
  BY <1>2, <1>3, LeastNatural
<1>5. Min(I) \in I
  BY <1>4 DEF Min
<1>6. FirstUsable = EngineNames[Min(I)]
  BY <1>2 DEF FirstUsable, SelectInSeq, I
<1> QED
  BY <1>5, <1>6 DEF I

LEMMA DefaultsAreChoices ==
  ASSUME LaunchTypes, NEW e \in Installed
  PROVE  defaultsFor(e) \in RunChoices /\ defaultsFor(e).engine = e
<1> DEFINE m == defaultsFor(e).model
<1>1. m \in {offered.models[e], <<e, 2>>, NoModel}
  BY DEF defaultsFor
<1>2. m \in ModelsOf(e) \cup {NoModel}
  BY <1>1 DEF LaunchTypes, ModelsOf, Curated
<1>3. defaultsFor(e) = [engine |-> e, model |-> m]
  BY DEF defaultsFor
<1> HIDE DEF m
<1> QED
  BY <1>2, <1>3 DEF RunChoices

\* What the form stands on: a choice, the user's or of an engine that can run.
LEMMA ChoiceIsOne ==
  ASSUME LaunchTypes
  PROVE  /\ Choice \in RunChoices
         /\ Choice # NoChoice /\ panel.picked = NoChoice => Choice.engine \in usable
<1>1. CASE panel.picked # NoChoice
  BY <1>1 DEF Choice, LaunchTypes
<1>2. CASE panel.picked = NoChoice /\ initialChoice = NoChoice
  BY <1>2 DEF Choice, RunChoices
<1>3. CASE panel.picked = NoChoice /\ initialChoice # NoChoice
  <2>1. usable # {}
    BY <1>3 DEF initialChoice
  <2>2. FirstUsable \in usable /\ usable \subseteq Installed
    BY <2>1, FirstIsUsable DEF LaunchTypes
  <2>3. \/ initialChoice = stored /\ stored.engine \in usable
        \/ initialChoice = defaultsFor(offered.engine) /\ offered.engine \in usable
        \/ initialChoice = defaultsFor(FirstUsable)
    BY <2>1 DEF initialChoice
  <2> HIDE DEF initialChoice, defaultsFor, FirstUsable
  <2>4. initialChoice \in RunChoices /\ initialChoice.engine \in usable
    BY <2>2, <2>3, DefaultsAreChoices DEF LaunchTypes
  <2> QED
    BY <1>3, <2>4 DEF Choice
<1> QED
  BY <1>1, <1>2, <1>3

LEMMA FormsAreTyped ==
  ASSUME offered.subject \in Subjects \cup {""}
  PROVE  {OpenPanel, ClosedPanel} \subseteq
           [mounted : BOOLEAN, picked : RunChoices, subject : Subjects \cup {""}, busy : BOOLEAN, error : BOOLEAN]
<1>1. NoChoice \in RunChoices
  BY DEF RunChoices
<1> HIDE DEF NoChoice
<1>2. ClosedPanel \in [mounted : BOOLEAN, picked : RunChoices, subject : Subjects \cup {""}, busy : BOOLEAN, error : BOOLEAN]
  BY <1>1 DEF ClosedPanel
<1> HIDE DEF ClosedPanel
<1> QED
  BY <1>2 DEF OpenPanel

\* The choice is a function of these alone.
LEMMA SameChoice ==
  ASSUME panel'.picked = panel.picked, UNCHANGED <<offered, catalog, usable, stored>>
  PROVE  Choice' = Choice
<1>1. FirstUsable' = FirstUsable
  BY DEF FirstUsable, SelectInSeq
<1>2. \A e : defaultsFor(e)' = defaultsFor(e)
  BY DEF defaultsFor, ListLoaded
<1>3. initialChoice' = initialChoice
  BY <1>1, <1>2 DEF initialChoice
<1> QED
  BY <1>3 DEF Choice

LEMMA LaunchInitInv == LaunchInit => LaunchInv
<1> SUFFICES ASSUME LaunchInit PROVE LaunchInv
  OBVIOUS
<1>1. /\ panel = OpenPanel /\ stored = NoChoice /\ fields = NoFields /\ launched = {}
      /\ usable \in SUBSET Installed
  BY DEF LaunchInit
<1>2. /\ offered.subject \in Subjects \cup {""}
      /\ \A e \in Installed : offered.models[e] \in {NoModel, <<e, 1>>, Uncurated(e)}
  BY DEF LaunchInit, Subjects
<1>3. LaunchTypes
  <2>1. \A e \in Installed : offered.models[e] \in ModelsOf(e) \cup {NoModel}
    BY <1>2 DEF ModelsOf, Curated
  <2>2. NoChoice \in RunChoices
    BY DEF RunChoices
  <2> QED
    BY <1>1, <1>2, <2>1, <2>2, FormsAreTyped DEF LaunchTypes
<1> QED
  BY <1>1, <1>3 DEF LaunchInv, FieldsFollow, StartsWhatItShows

\* Whatever the form's five sources become, the fields that are rendered stand on its choice.
LEMMA RenderFollows ==
  ASSUME NEW f, Render(f)
  PROVE  FieldsFollow'
BY DEF Render, FieldsFollow, NoFields

\* A step that launches nothing and renders the form keeps the invariant.
LEMMA RenderKeeps ==
  ASSUME LaunchInv, LaunchTypes', UNCHANGED launched, NEW f, Render(f)
  PROVE  LaunchInv'
<1>1. StartsWhatItShows'
  BY DEF LaunchInv, StartsWhatItShows
<1> QED
  BY <1>1, RenderFollows DEF LaunchInv

\* A step that leaves the choice and the fields alone.
LEMMA FormKeeps ==
  ASSUME LaunchInv, LaunchTypes', panel'.picked = panel.picked,
         UNCHANGED <<offered, catalog, usable, fields, stored, launched>>
  PROVE  LaunchInv'
<1>1. Choice' = Choice
  BY SameChoice
<1> QED
  BY <1>1 DEF LaunchInv, FieldsFollow, StartsWhatItShows

LEMMA ChooseKeeps ==
  ASSUME LaunchInv, NEW c \in RunChoices, NEW other, Choose(c, other)
  PROVE  LaunchInv'
<1>1. LaunchTypes'
  BY DEF Choose, Edits, LaunchInv, LaunchTypes
<1>2. Render([fields EXCEPT !.other = other]) /\ UNCHANGED launched
  BY DEF Choose
<1> QED
  BY <1>1, <1>2, RenderKeeps

\* The user's picks are choices: the engine's own default, a model of the list, none yet, an
\* id that the engine knows.
LEMMA PicksKeep ==
  ASSUME LaunchInv,
         \/ \E e \in Installed : PickEngine(e) \/ \E m \in ModelsOf(e) \cup {NoModel} : PickModel(m) \/ TypeModel(m)
         \/ PickOther
  PROVE  LaunchInv'
<1> DEFINE with(m) == [Choice EXCEPT !.model = m]
<1>1. Choice \in RunChoices
  BY ChoiceIsOne DEF LaunchInv
<1>2. fields # NoFields => \E e \in Installed : Choice \in [engine : {e}, model : ModelsOf(e) \cup {NoModel}]
  BY <1>1 DEF LaunchInv, FieldsFollow, RunChoices
<1>3. ASSUME fields # NoFields, NEW m, m = NoModel \/ m \in ModelsOf(Choice.engine)
      PROVE  with(m) \in RunChoices
  <2>1. PICK e \in Installed : Choice \in [engine : {e}, model : ModelsOf(e) \cup {NoModel}]
    BY <1>2, <1>3
  <2>2. m \in ModelsOf(e) \cup {NoModel}
    BY <1>3, <2>1
  <2>3. with(m) \in [engine : {e}, model : ModelsOf(e) \cup {NoModel}]
    BY <2>1, <2>2
  <2> QED
    BY <2>3 DEF RunChoices
<1> HIDE DEF with
<1>4. ASSUME NEW e \in Installed, PickEngine(e) PROVE LaunchInv'
  BY <1>4, DefaultsAreChoices, ChooseKeeps DEF PickEngine, LaunchInv
<1>5. ASSUME NEW m, PickModel(m) PROVE LaunchInv'
  <2>1. m \in ModelsOf(Choice.engine) /\ fields # NoFields
    BY <1>5 DEF PickModel, Choose, ModelsOf
  <2>2. with(m) \in RunChoices
    BY <1>3, <2>1
  <2>3. Choose(with(m), FALSE)
    BY <1>5 DEF PickModel, with
  <2> QED
    BY <2>2, <2>3, ChooseKeeps
<1>6. ASSUME NEW m, TypeModel(m) PROVE LaunchInv'
  <2>1. m \in ModelsOf(Choice.engine) /\ fields # NoFields
    BY <1>6 DEF TypeModel, Choose
  <2>2. with(m) \in RunChoices
    BY <1>3, <2>1
  <2>3. Choose(with(m), fields.other)
    BY <1>6 DEF TypeModel, with
  <2> QED
    BY <2>2, <2>3, ChooseKeeps
<1>7. CASE PickOther
  <2>1. fields # NoFields
    BY <1>7 DEF PickOther, Choose
  <2>2. with(NoModel) \in RunChoices
    BY <1>3, <2>1
  <2>3. Choose(with(NoModel), TRUE)
    BY <1>7 DEF PickOther, with
  <2> QED
    BY <2>2, <2>3, ChooseKeeps
<1> QED
  BY <1>4, <1>5, <1>6, <1>7

LEMMA StartKeeps ==
  ASSUME LaunchInv, Start
  PROVE  LaunchInv'
<1> DEFINE sees == IF fields = NoFields THEN NoChoice ELSE [engine |-> fields.engine, model |-> ShownModel]
           sends == [choice |-> Choice, able |-> usable, picked |-> panel.picked # NoChoice, shown |-> sees]
<1>1. /\ launched' = {sends} /\ panel' = [panel EXCEPT !.busy = TRUE, !.error = FALSE]
      /\ UNCHANGED <<offered, catalog, usable, fields, stored>>
  BY DEF Start
<1>2. LaunchTypes'
  BY <1>1 DEF LaunchInv, LaunchTypes
<1>3. panel'.picked = panel.picked
  BY <1>1 DEF LaunchInv, LaunchTypes
<1>4. Choice' = Choice
  BY <1>1, <1>3, SameChoice
<1>5. FieldsFollow'
  BY <1>1, <1>4 DEF LaunchInv, FieldsFollow
<1>6. ASSUME Choice # NoChoice
      PROVE  /\ Choice.model \in ModelsOf(Choice.engine)
             /\ panel.picked # NoChoice \/ Choice.engine \in usable
             /\ sees # NoChoice => sees = Choice
  <2>1. PICK e \in Installed : Choice \in [engine : {e}, model : ModelsOf(e) \cup {NoModel}]
    BY <1>6, ChoiceIsOne DEF LaunchInv, RunChoices
  <2>2. Choice.model # NoModel
    BY <1>6 DEF Start, StartValid
  <2>3. Choice.model \in ModelsOf(Choice.engine)
    BY <2>1, <2>2
  <2>4. ShownModel = Choice.model
    BY <2>2 DEF ShownModel, Custom, OutOfList
  <2>5. fields # NoFields => sees = [engine |-> Choice.engine, model |-> Choice.model]
    BY <2>4 DEF LaunchInv, FieldsFollow
  <2>6. [engine |-> Choice.engine, model |-> Choice.model] = Choice
    BY <2>1
  <2>7. fields = NoFields => sees = NoChoice
    OBVIOUS
  <2> HIDE DEF sees
  <2> QED
    BY <1>6, <2>3, <2>5, <2>6, <2>7, ChoiceIsOne DEF LaunchInv
<1> HIDE DEF sees
<1>7. /\ sends.choice = Choice /\ sends.able = usable /\ sends.shown = sees
      /\ sends.picked <=> panel.picked # NoChoice
  OBVIOUS
<1> HIDE DEF sends
<1>8. StartsWhatItShows'
  BY <1>1, <1>6, <1>7 DEF StartsWhatItShows
<1> QED
  BY <1>2, <1>5, <1>8 DEF LaunchInv

LEMMA LaunchStepInv == LaunchInv /\ [LaunchNext]_lvars => LaunchInv'
<1> SUFFICES ASSUME LaunchInv, [LaunchNext]_lvars PROVE LaunchInv'
  OBVIOUS
<1> USE DEF LaunchInv
<1>1. ASSUME NEW answer \in {"loaded", "failed"}, CatalogAnswers(answer) PROVE LaunchInv'
  <2>1. LaunchTypes'
    BY <1>1 DEF CatalogAnswers, LaunchTypes
  <2> QED
    BY <1>1, <2>1, RenderKeeps DEF CatalogAnswers
<1>2. ASSUME NEW now_ \in BOOLEAN, NEW able \in SUBSET Installed, RunnerNews(now_, able) PROVE LaunchInv'
  <2>1. panel' \in {panel, OpenPanel, ClosedPanel}
    BY <1>2 DEF RunnerNews
  <2>2. LaunchTypes'
    BY <1>2, <2>1, FormsAreTyped DEF RunnerNews, LaunchTypes
  <2> QED
    BY <1>2, <2>2, RenderKeeps DEF RunnerNews
<1>3. ASSUME NEW s \in Subjects, TypeSubject(s) PROVE LaunchInv'
  <2>1. panel' = [panel EXCEPT !.subject = s] /\ UNCHANGED <<offered, catalog, usable, fields, stored, launched>>
    BY <1>3 DEF TypeSubject
  <2>2. LaunchTypes' /\ panel'.picked = panel.picked
    BY <2>1 DEF LaunchTypes
  <2> QED
    BY <2>1, <2>2, FormKeeps
<1>4. CASE \/ \E e \in Installed : PickEngine(e) \/ \E m \in ModelsOf(e) \cup {NoModel} : PickModel(m) \/ TypeModel(m)
           \/ PickOther
  BY <1>4, PicksKeep
<1>5. CASE Start
  BY <1>5, StartKeeps
<1>6. CASE StartRefused
  BY <1>6, FormKeeps DEF StartRefused, LaunchTypes
<1>7. CASE Leave
  <2>1. LaunchTypes'
    BY <1>7, FormsAreTyped DEF Leave, LaunchTypes
  <2> QED
    BY <1>7, <2>1, RenderKeeps DEF Leave
<1>8. CASE Visit
  <2>1. LaunchTypes'
    BY <1>8, FormsAreTyped DEF Visit, LaunchTypes
  <2> QED
    BY <1>8, <2>1, RenderKeeps DEF Visit
<1>9. CASE UNCHANGED lvars
  BY <1>9, FormKeeps DEF lvars, LaunchTypes
<1> QED
  BY <1>1, <1>2, <1>3, <1>4, <1>5, <1>6, <1>7, <1>8, <1>9 DEF LaunchNext

\* A run is started with a model of its own engine, on an engine that could run unless the
\* user picked it, and with what the fields showed (launch-panel.tsx:267-288).
THEOREM LaunchShows == LaunchSpec => []StartsWhatItShows
<1>1. LaunchInv => StartsWhatItShows
  BY DEF LaunchInv
<1> QED
  BY <1>1, LaunchInitInv, LaunchStepInv, PTL DEF LaunchSpec

\* What else the form is made of.  It is mounted only while the runner is ready, and its
\* engine fields only while it is.
FormTypes ==
  /\ catalog \in {"loading", "loaded", "failed"} /\ ready \in BOOLEAN
  /\ panel.mounted => ready
  /\ ~panel.mounted => panel = ClosedPanel /\ fields = NoFields
  /\ fields \in [engine : Installed \cup {NoEngine}, other : BOOLEAN]

LEMMA ChoiceHas ==
  ASSUME NEW c \in RunChoices
  PROVE  /\ c.engine \in Installed \cup {NoEngine} /\ c.model \in Models
         /\ c # NoChoice => c.engine \in Installed
BY DEF RunChoices, NoChoice, Models

LEMMA ChoiceTyped == LaunchTypes => Choice \in RunChoices
  BY ChoiceIsOne

LEMMA RenderTypes ==
  ASSUME NEW f \in [engine : Installed \cup {NoEngine}, other : BOOLEAN], Render(f), LaunchTypes'
  PROVE  /\ fields' \in [engine : Installed \cup {NoEngine}, other : BOOLEAN]
         /\ ~panel'.mounted => fields' = NoFields
<1>1. Choice' \in RunChoices
  <2>1. (LaunchTypes => Choice \in RunChoices)'
    BY ChoiceTyped, PTL
  <2> QED
    BY <2>1
<1>2. Choice' # NoChoice => Choice'.engine \in Installed
  BY <1>1, ChoiceHas
<1>3. OutOfList(Choice') \in BOOLEAN
  BY DEF OutOfList, Listed
<1>4. NoFields \in [engine : Installed \cup {NoEngine}, other : BOOLEAN]
  BY DEF NoFields
<1> QED
  BY <1>2, <1>3, <1>4 DEF Render

LEMMA LaunchInitForm == LaunchInit => FormTypes
<1>1. OpenPanel.mounted
  BY DEF OpenPanel, ClosedPanel
<1>2. NoFields \in [engine : Installed \cup {NoEngine}, other : BOOLEAN]
  BY DEF NoFields
<1> QED
  BY <1>1, <1>2 DEF LaunchInit, FormTypes

LEMMA LaunchStepForm == LaunchInv /\ FormTypes /\ [LaunchNext]_lvars => FormTypes'
<1> SUFFICES ASSUME LaunchInv, FormTypes, [LaunchNext]_lvars PROVE FormTypes'
  OBVIOUS
<1>0. LaunchTypes /\ LaunchTypes'
  BY LaunchStepInv DEF LaunchInv
<1> DEFINE Fields == [engine : Installed \cup {NoEngine}, other : BOOLEAN]
<1>f. fields \in Fields
  BY DEF FormTypes
<1>1. ASSUME NEW answer \in {"loaded", "failed"}, CatalogAnswers(answer) PROVE FormTypes'
  BY <1>0, <1>f, <1>1, RenderTypes DEF CatalogAnswers, FormTypes
<1>2. ASSUME NEW up \in BOOLEAN, NEW able \in SUBSET Installed, RunnerNews(up, able) PROVE FormTypes'
  <2>1. /\ panel' = IF up = panel.mounted THEN panel ELSE IF up THEN OpenPanel ELSE ClosedPanel
        /\ ready' = up /\ catalog' = catalog /\ Render(fields)
    BY <1>2 DEF RunnerNews
  <2>2. OpenPanel.mounted /\ ~ClosedPanel.mounted
    BY DEF OpenPanel, ClosedPanel
  <2>3. fields' \in Fields /\ (~panel'.mounted => fields' = NoFields)
    BY <1>0, <1>f, <2>1, RenderTypes
  <2>4. panel.mounted \in BOOLEAN
    BY <1>0 DEF LaunchTypes
  <2> QED
    BY <2>1, <2>2, <2>3, <2>4 DEF FormTypes
<1>3. ASSUME NEW s \in Subjects, TypeSubject(s) PROVE FormTypes'
  <2>1. panel'.mounted = panel.mounted /\ panel.mounted
    BY <1>0, <1>3 DEF TypeSubject, Edits, LaunchTypes
  <2> QED
    BY <1>3, <2>1 DEF TypeSubject, FormTypes
<1>4. ASSUME NEW c, NEW other \in BOOLEAN, Choose(c, other) PROVE FormTypes'
  <2>1. panel'.mounted = panel.mounted /\ panel.mounted
    BY <1>0, <1>4 DEF Choose, Edits, LaunchTypes
  <2>2. [fields EXCEPT !.other = other] \in Fields
    BY <1>f
  <2>3. fields' \in Fields
    BY <1>0, <1>4, <2>2, RenderTypes DEF Choose
  <2> QED
    BY <1>4, <2>1, <2>3 DEF Choose, FormTypes
<1>5. ASSUME NEW e \in Installed, PickEngine(e) PROVE FormTypes'
  BY <1>4, <1>5 DEF PickEngine
<1>6. ASSUME NEW m, PickModel(m) \/ TypeModel(m) PROVE FormTypes'
  BY <1>4, <1>6, <1>f DEF PickModel, TypeModel
<1>7. ASSUME PickOther PROVE FormTypes'
  BY <1>4, <1>7 DEF PickOther
<1>8. ASSUME Start \/ StartRefused PROVE FormTypes'
  <2>1. panel'.mounted = panel.mounted /\ panel.mounted /\ fields' = fields /\ catalog' = catalog /\ ready' = ready
    BY <1>0, <1>8 DEF Start, StartRefused, LaunchTypes
  <2> QED
    BY <2>1 DEF FormTypes
<1>9. ASSUME Leave PROVE FormTypes'
  <2>1. panel' = ClosedPanel /\ ready' = ready /\ catalog' = catalog /\ Render(fields)
    BY <1>9 DEF Leave
  <2>2. ~ClosedPanel.mounted
    BY DEF ClosedPanel
  <2> QED
    BY <1>0, <1>f, <2>1, <2>2, RenderTypes DEF FormTypes
<1>10. ASSUME Visit PROVE FormTypes'
  <2>1. panel' = OpenPanel /\ ready /\ ready' = ready /\ catalog' = "loading" /\ Render(fields)
    BY <1>10 DEF Visit
  <2>2. OpenPanel.mounted
    BY DEF OpenPanel, ClosedPanel
  <2> QED
    BY <1>0, <1>f, <2>1, <2>2, RenderTypes DEF FormTypes
<1>11. CASE UNCHANGED lvars
  BY <1>11 DEF lvars, FormTypes
<1> QED
  BY <1>1, <1>2, <1>3, <1>5, <1>6, <1>7, <1>8, <1>9, <1>10, <1>11 DEF LaunchNext

LEMMA FormHasTypes == LaunchInv /\ FormTypes => LaunchTypeOK
<1> SUFFICES ASSUME LaunchInv, FormTypes PROVE LaunchTypeOK
  OBVIOUS
<1>1. /\ panel.picked \in RunChoices /\ stored \in RunChoices /\ usable \subseteq Installed
  BY DEF LaunchInv, LaunchTypes
<1>2. ready => \A mobile, aside \in BOOLEAN : AdvisorPage("known", "planner", TRUE, FALSE, mobile, aside).body = "chat"
  BY DEF AdvisorPage, ChatShown
<1>3. \A settled, answer : Preview(settled, answer) # "nothing" => ValidSubject(panel.subject)
  BY DEF Preview
<1> QED
  BY <1>1, <1>2, <1>3, ChoiceHas DEF FormTypes, LaunchTypeOK

\* The form's state is as declared; it is mounted only where the page shows it, and nothing of
\* it is left when it is not (launch-panel.tsx:264-277, advisor.tsx:134-217).
THEOREM LaunchHasTypes == LaunchSpec => []LaunchTypeOK
  BY LaunchInitInv, LaunchStepInv, LaunchInitForm, LaunchStepForm, FormHasTypes, PTL DEF LaunchSpec

---------------------------------------------------------------------------
(* Robots.  LooksAgain rests on three facts: what is shown is what the      *)
(* events that were heard say at the robot's own clock; the timer is the    *)
(* one armed for it; and once a window is over, nothing that has a window   *)
(* is shown on the same events (WindowEnds), so that a timer that has gone  *)
(* off need not be armed anew for the same moment.                          *)

Passing == {"speaking", "done", "error"}

EventSet == [kind : {"status", "user", "delta", "text", "tool"},
             what : {"", "queued", "running", "verifying", "completed", "failed", "awaiting_input",
                     "fo report write"},
             nested : BOOLEAN, at : Nat]

\* The events of a stream are stamped in order.
Ordered(events) ==
  /\ events \in Seq(EventSet)
  /\ \A i, j \in 1..Len(events) : i <= j => events[i].at <= events[j].at

Remembered == KeptEvents(Heard)

RobotsInv ==
  /\ clock \in Nat /\ now \in Nat /\ now <= clock
  /\ Ordered(run) /\ \A i \in 1..Len(run) : run[i].at <= clock
  /\ heard \in 0..Len(run)
  /\ shown = stateFromRun(conversation, Remembered, reachable, now)
  /\ armedFor = nextChange(shown, Remembered, now)
  /\ timer = armedFor

\* The greatest element of a bounded set of naturals.
LEMMA GreatestNatural ==
  ASSUME NEW S \in SUBSET Nat, S # {}, NEW b \in Nat, \A n \in S : n <= b
  PROVE  \E m \in S : \A n \in S : n <= m
<1> DEFINE T == {k \in Nat : b - k \in S}
<1>1. PICK s \in S : TRUE
  OBVIOUS
<1>2. b - s \in T
  BY <1>1
<1>3. PICK k \in T : \A l \in T : k <= l
  BY <1>2, LeastNatural
<1>4. ASSUME NEW n \in S PROVE n <= b - k
  <2>1. b - n \in T
    OBVIOUS
  <2>2. k <= b - n
    BY <1>3, <2>1
  <2> QED
    BY <1>3, <2>2
<1> QED
  BY <1>3, <1>4

\* The last event of a kind is one of the events, or there is none.
LEMMA LatestIsOne ==
  ASSUME NEW events, Ordered(events)
  PROVE  /\ Latest(events, IsStatus) \in 0..Len(events)
         /\ LastWork(events) \in 0..Len(events)
<1>1. DOMAIN events = 1..Len(events) /\ Len(events) \in Nat
  BY DEF Ordered
<1> DEFINE last(P) == IF P = {} THEN 0 ELSE CHOOSE i \in P : \A j \in P : j <= i
<1>2. ASSUME NEW P \in SUBSET (1..Len(events)) PROVE last(P) \in 0..Len(events)
  <2>1. CASE P = {}
    BY <1>1, <2>1
  <2>2. CASE P # {}
    <3>1. P \in SUBSET Nat /\ \A n \in P : n <= Len(events)
      BY <1>1
    <3>2. \E m \in P : \A n \in P : n <= m
      BY <1>1, <2>2, <3>1, GreatestNatural
    <3>3. last(P) \in P
      BY <2>2, <3>2
    <3>4. P \subseteq 0..Len(events)
      BY <1>1
    <3> HIDE DEF last
    <3> QED
      BY <3>3, <3>4
  <2> QED
    BY <2>1, <2>2
<1>3. Latest(events, IsStatus) \in 0..Len(events)
  <2> DEFINE P == {i \in DOMAIN events : IsStatus(events[i])}
  <2>1. P \in SUBSET (1..Len(events))
    BY <1>1
  <2>2. Latest(events, IsStatus) = last(P)
    BY DEF Latest
  <2> HIDE DEF P, last
  <2> QED
    BY <1>2, <2>1, <2>2
<1>4. Latest(events, IsWork) \in 0..Len(events)
  <2> DEFINE P == {i \in DOMAIN events : IsWork(events[i])}
  <2>1. P \in SUBSET (1..Len(events))
    BY <1>1
  <2>2. Latest(events, IsWork) = last(P)
    BY DEF Latest
  <2> HIDE DEF P, last
  <2> QED
    BY <1>2, <2>1, <2>2
<1> QED
  BY <1>1, <1>3, <1>4 DEF LastWork

LEMMA LastIsLater ==
  ASSUME NEW events, Ordered(events), events # <<>>
  PROVE  /\ Len(events) \in Nat \ {0} /\ Last(events) = events[Len(events)]
         /\ Last(events).at \in Nat
         /\ \A i \in 0..Len(events) : i # 0 => events[i].at \in Nat /\ events[i].at <= Last(events).at
<1>1. events \in Seq(EventSet) /\ Last(events) = events[Len(events)]
  BY DEF Ordered, Last
<1>2. Len(events) \in Nat \ {0}
  BY <1>1
<1>3. \A i \in 1..Len(events) : events[i] \in EventSet
  BY <1>1
<1>4. \A i \in 1..Len(events) : events[i].at \in Nat
  BY <1>3 DEF EventSet
<1> QED
  BY <1>1, <1>2, <1>4 DEF Ordered

\* A state that has a window is not shown again on the same events once the window is over.
LEMMA WindowEnds ==
  ASSUME NEW events, Ordered(events), events # <<>>, NEW rec, NEW on, NEW before, NEW after \in Nat,
         stateFromRun(rec, events, on, before) \in Passing,
         after >= Last(events).at + Window(stateFromRun(rec, events, on, before)) + 1
  PROVE  stateFromRun(rec, events, on, after) \notin Passing
<1> DEFINE mood == stateFromRun(rec, events, on, before)
           status == StatusNow(rec, events)
           work == LastWork(events)
           speaking(t) == work # 0 /\ events[work].kind = "delta" /\ t - events[work].at <= Fresh
<1>1. /\ Fresh \in Nat /\ Finished \in Nat
      /\ Len(events) \in Nat \ {0} /\ Last(events) = events[Len(events)] /\ Last(events).at \in Nat
  BY RobotsAssumption, LastIsLater
<1>2. work # 0 => events[work].at \in Nat /\ events[work].at <= Last(events).at
  BY LatestIsOne, LastIsLater
<1>3. FinishedAt(rec, events) \in Nat /\ FinishedAt(rec, events) <= Last(events).at
  <2> DEFINE i == Latest(events, IsStatus)
  <2>1. i \in 0..Len(events)
    BY LatestIsOne
  <2>2. i # 0 => FinishedAt(rec, events) = events[i].at
    BY DEF FinishedAt
  <2>3. i = 0 => FinishedAt(rec, events) = Last(events).at
    BY DEF FinishedAt
  <2> HIDE DEF i
  <2> QED
    BY <1>1, <2>1, <2>2, <2>3, LastIsLater
<1> HIDE DEF status, work
<1>4. \A t : stateFromRun(rec, events, on, t) =
        IF ~on THEN "sleeping"
        ELSE IF rec = NoConversation THEN "idle"
        ELSE CASE status \in Working /\ status # "running" -> "thinking"
               [] status \in {"running", "awaiting_input"} /\ speaking(t) -> "speaking"
               [] status = "running" /\ ~speaking(t) ->
                    IF work # 0 /\ events[work].kind = "tool" THEN toolState(events[work].what) ELSE "thinking"
               [] status \in {"completed", "failed"} /\ t - FinishedAt(rec, events) <= Finished ->
                    IF status = "completed" THEN "done" ELSE "error"
               [] OTHER -> "idle"
  BY DEF stateFromRun, status, work
<1> DEFINE present == events[work].what
<1>5. toolState(present) \notin Passing
  BY DEF toolState, Passing
<1> HIDE DEF present
<1>6. CASE status \in {"running", "awaiting_input"}
  <2>1. mood = "speaking" => Window(mood) = Fresh
    BY DEF Window
  <2>2. mood \in Passing => mood = "speaking"
    BY <1>4, <1>5, <1>6 DEF Passing, present
  <2>3. ~speaking(after)
    BY <1>1, <1>2, <2>1, <2>2
  <2> QED
    BY <1>4, <1>5, <1>6, <2>3 DEF Passing, present
<1>7. CASE status \in {"completed", "failed"}
  <2>1. mood \in {"done", "error"} => Window(mood) = Finished
    BY DEF Window
  <2>2. mood \in Passing => mood \in {"done", "error"}
    BY <1>4, <1>7 DEF Passing, Working
  <2>3. ~(after - FinishedAt(rec, events) <= Finished)
    BY <1>1, <1>3, <2>1, <2>2
  <2> QED
    BY <1>4, <1>7, <2>3 DEF Passing, Working
<1>8. CASE status \notin {"running", "awaiting_input", "completed", "failed"}
  BY <1>4, <1>8 DEF Passing, Working
<1> QED
  BY <1>6, <1>7, <1>8

\* The robots get the tail of what was heard: never nothing of something, and the same last.
LEMMA KeptIsTail ==
  ASSUME NEW events, Ordered(events)
  PROVE  /\ Ordered(KeptEvents(events))
         /\ KeptEvents(events) = <<>> <=> events = <<>>
         /\ events # <<>> => Last(KeptEvents(events)) = Last(events)
<1> DEFINE n == Len(events)
           m == Max({1, n - EventTail + 1})
           kept == SubSeq(events, m, n)
<1>1. n \in Nat /\ EventTail \in Nat \ {0} /\ events \in Seq(EventSet)
  BY RobotsAssumption DEF Ordered
<1>2. m \in {1, n - EventTail + 1} /\ m >= 1 /\ m >= n - EventTail + 1
  <2>1. \E x \in {1, n - EventTail + 1} : \A y \in {1, n - EventTail + 1} : x >= y
    BY <1>1
  <2> QED
    BY <2>1 DEF Max
<1> HIDE DEF m
<1>3. m \in Nat \ {0} /\ (n # 0 => m <= n)
  BY <1>1, <1>2
<1>4. \A i \in m..n : events[i] \in EventSet
  BY <1>1, <1>3
<1>5. /\ kept \in Seq(EventSet) /\ Len(kept) = IF m <= n THEN n - m + 1 ELSE 0
      /\ \A i \in 1..(n - m + 1) : kept[i] = events[m + i - 1]
  BY <1>1, <1>3, <1>4, SubSeqProperties
<1>6. KeptEvents(events) = kept
  BY DEF KeptEvents, m
<1> HIDE DEF kept
<1>7. events # <<>> => n # 0
  BY <1>1
<1>8. CASE events = <<>>
  <2>1. n = 0 /\ Len(kept) = 0
    BY <1>3, <1>5, <1>8
  <2>2. kept = <<>>
    BY <1>5, <2>1
  <2> QED
    BY <1>6, <1>8, <2>2
<1>9. CASE events # <<>>
  <2>1. m <= n /\ Len(kept) = n - m + 1 /\ Len(kept) # 0
    BY <1>1, <1>3, <1>5, <1>7, <1>9
  <2>2. \A i, j \in 1..Len(kept) : i <= j => kept[i].at <= kept[j].at
    <3> SUFFICES ASSUME NEW i \in 1..Len(kept), NEW j \in 1..Len(kept), i <= j
                 PROVE  kept[i].at <= kept[j].at
      OBVIOUS
    <3>1. m + i - 1 \in 1..n /\ m + j - 1 \in 1..n /\ m + i - 1 <= m + j - 1
      BY <1>1, <1>3, <2>1
    <3>2. kept[i] = events[m + i - 1] /\ kept[j] = events[m + j - 1]
      BY <1>5, <2>1
    <3> QED
      BY <3>1, <3>2 DEF Ordered
  <2>3. kept[Len(kept)] = events[n]
    <3>1. Len(kept) \in 1..(n - m + 1) /\ m + Len(kept) - 1 = n
      BY <1>1, <1>3, <2>1
    <3> QED
      BY <1>5, <3>1
  <2> QED
    BY <1>5, <1>6, <1>9, <2>1, <2>2, <2>3 DEF Ordered, Last
<1> QED
  BY <1>8, <1>9

\* What was heard is as long as that, and does not change as the stream goes on.
LEMMA HeardIsStart ==
  ASSUME Ordered(run), heard \in 0..Len(run)
  PROVE  /\ Ordered(Heard) /\ Len(Heard) = heard
         /\ \A i \in 1..heard : Heard[i] = run[i]
<1>1. \A i \in 1..heard : run[i] \in EventSet
  BY DEF Ordered
<1>2. /\ Heard \in Seq(EventSet) /\ Len(Heard) = heard
      /\ \A i \in 1..heard : Heard[i] = run[i]
  BY <1>1, SubSeqProperties DEF Heard
<1> HIDE DEF Heard
<1> QED
  BY <1>2 DEF Ordered

LEMMA RobotsInitInv == RobotsInit => RobotsInv
<1> SUFFICES ASSUME RobotsInit PROVE RobotsInv
  OBVIOUS
<1>1. /\ run \in {<<>>, History} /\ clock = (IF run = <<>> THEN 0 ELSE Finished + 1) /\ now = clock
      /\ heard = 0 /\ conversation = NoConversation /\ reachable = TRUE
      /\ shown = "idle" /\ timer = Never /\ armedFor = Never
  BY DEF RobotsInit
<1>2. clock \in Nat /\ now \in Nat /\ now <= clock
  BY <1>1, RobotsAssumption
<1>3. Ordered(run) /\ \A i \in 1..Len(run) : run[i].at <= clock
  <2>1. CASE run = <<>>
    BY <2>1 DEF Ordered
  <2>2. CASE run = History
    <3>1. /\ History \in Seq(EventSet) /\ Len(History) = 2
          /\ \A i \in 1..2 : History[i].at = 0
      BY DEF History, EventSet
    <3> HIDE DEF History
    <3> QED
      BY <1>2, <2>2, <3>1 DEF Ordered
  <2> QED
    BY <1>1, <2>1, <2>2
<1>4. heard \in 0..Len(run)
  BY <1>1, <1>3 DEF Ordered
<1>5. Remembered = <<>>
  <2>1. Ordered(Heard) /\ Len(Heard) = 0
    BY <1>1, <1>3, <1>4, HeardIsStart
  <2>2. Heard = <<>>
    BY <2>1 DEF Ordered
  <2> QED
    BY <2>1, <2>2, KeptIsTail DEF Remembered
<1>6. shown = stateFromRun(conversation, Remembered, reachable, now)
  BY <1>1 DEF stateFromRun
<1>7. armedFor = nextChange(shown, Remembered, now)
  BY <1>1, <1>5 DEF nextChange
<1> QED
  BY <1>1, <1>2, <1>3, <1>4, <1>6, <1>7 DEF RobotsInv

\* What nextChange says: when a state that has a window is shown of some events, the end of
\* the window of the last one, or now when that has passed.
LEMMA NextChangeIs ==
  ASSUME NEW mood, NEW events, Ordered(events), NEW time \in Nat
  PROVE  LET ends == Last(events).at + Window(mood) + 1
         IN /\ nextChange(mood, events, time) =
                 IF mood \in Passing /\ events # <<>> THEN IF time > ends THEN time ELSE ends ELSE Never
            /\ mood \in Passing /\ events # <<>> =>
                 nextChange(mood, events, time) \in Nat /\ nextChange(mood, events, time) >= ends
                 /\ ends \in Nat
<1> DEFINE ends == Last(events).at + Window(mood) + 1
<1>1. Window(mood) \in Nat
  BY RobotsAssumption DEF Window
<1>2. nextChange(mood, events, time) =
        IF mood \in Passing /\ events # <<>> THEN IF time > ends THEN time ELSE ends ELSE Never
  BY DEF nextChange, Passing
<1>3. events # <<>> => ends \in Nat
  BY <1>1, LastIsLater
<1> HIDE DEF ends
<1>4. mood \in Passing /\ events # <<>> =>
        nextChange(mood, events, time) \in Nat /\ nextChange(mood, events, time) >= ends
  BY <1>2, <1>3
<1> QED
  BY <1>2, <1>3, <1>4 DEF ends

\* The robot is drawn again, with its timer as it was.
LEMMA RerenderKeeps ==
  ASSUME RobotsInv, Rerender(timer),
         Ordered(run') /\ (\A i \in 1..Len(run') : run'[i].at <= clock') /\ heard' \in 0..Len(run'),
         UNCHANGED <<clock, now>>
  PROVE  RobotsInv'
BY DEF RobotsInv, Rerender, Remembered

\* The timer goes off: the window it was armed for is over, and none is shown.
LEMMA TimerFiresKeeps ==
  ASSUME RobotsInv, TimerFires
  PROVE  RobotsInv'
<1>1. /\ timer # Never /\ timer <= clock /\ now' = clock
      /\ UNCHANGED <<clock, run, heard, conversation, loading, reachable>>
  BY DEF TimerFires
<1>2. Heard' = Heard /\ Remembered' = Remembered
  BY <1>1 DEF Heard, Remembered
<1>3. /\ shown' = stateFromRun(conversation, Remembered, reachable, clock)
      /\ armedFor' = nextChange(shown', Remembered, clock)
      /\ timer' = IF armedFor' = armedFor THEN Never ELSE armedFor'
  BY <1>1, <1>2 DEF TimerFires, Rerender, Remembered
<1>4. Ordered(Remembered) /\ clock \in Nat /\ now \in Nat
  BY HeardIsStart, KeptIsTail DEF RobotsInv, Remembered
<1>5. armedFor = nextChange(shown, Remembered, now) /\ armedFor = timer
  BY DEF RobotsInv
<1>6. shown \in Passing /\ Remembered # <<>>
  BY <1>1, <1>4, <1>5, NextChangeIs
<1>7. clock >= Last(Remembered).at + Window(shown) + 1
  <2> DEFINE end == Last(Remembered).at + Window(shown) + 1
  <2>1. nextChange(shown, Remembered, now) \in Nat /\ nextChange(shown, Remembered, now) >= end /\ end \in Nat
    BY <1>4, <1>6, NextChangeIs
  <2> HIDE DEF end
  <2>2. clock >= end
    BY <1>1, <1>4, <1>5, <2>1
  <2> QED
    BY <2>2 DEF end
<1>8. shown' \notin Passing
  BY <1>3, <1>4, <1>6, <1>7, WindowEnds DEF RobotsInv
<1>9. armedFor' = Never /\ timer' = Never
  BY <1>1, <1>3, <1>4, <1>5, <1>8, NextChangeIs
<1> QED
  BY <1>1, <1>2, <1>3, <1>9 DEF RobotsInv

\* The server goes on with the run: the page has heard what it had heard.
LEMMA StreamGrows ==
  ASSUME RobotsInv, NEW more \in Seq(EventSet), run' = run \o more,
         \A i \in 1..Len(more) : more[i].at = clock,
         UNCHANGED <<clock, heard, conversation, reachable, shown, now, timer, armedFor>>
  PROVE  RobotsInv'
<1>1. /\ run \in Seq(EventSet) /\ clock \in Nat /\ heard \in 0..Len(run)
      /\ Len(run) \in Nat /\ Len(more) \in Nat
  BY DEF RobotsInv, Ordered
<1>2. /\ run' \in Seq(EventSet) /\ Len(run') = Len(run) + Len(more)
      /\ \A i \in 1..(Len(run) + Len(more)) :
           run'[i] = IF i <= Len(run) THEN run[i] ELSE more[i - Len(run)]
  BY <1>1, ConcatProperties
<1>3. \A i \in 1..Len(run) : run'[i] = run[i]
  BY <1>1, <1>2
<1>4. \A i \in 1..Len(run') : i > Len(run) => run'[i].at = clock
  <2> SUFFICES ASSUME NEW i \in 1..Len(run'), i > Len(run) PROVE run'[i].at = clock
    OBVIOUS
  <2>1. i - Len(run) \in 1..Len(more) /\ run'[i] = more[i - Len(run)]
    BY <1>1, <1>2
  <2> QED
    BY <2>1
<1>5. \A i \in 1..Len(run) : run[i].at <= clock /\ run[i].at \in Nat
  <2>1. \A i \in 1..Len(run) : run[i] \in EventSet
    BY <1>1
  <2> QED
    BY <2>1 DEF RobotsInv, EventSet
<1>6. \A i \in 1..Len(run') : run'[i].at <= clock
  <2> SUFFICES ASSUME NEW i \in 1..Len(run') PROVE run'[i].at <= clock
    OBVIOUS
  <2>1. CASE i <= Len(run)
    <3>1. i \in 1..Len(run)
      BY <1>1, <1>2, <2>1
    <3> QED
      BY <1>3, <1>5, <3>1
  <2>2. CASE i > Len(run)
    BY <1>1, <1>4, <2>2
  <2> QED
    BY <1>1, <1>2, <2>1, <2>2
<1>7. Ordered(run')
  <2> SUFFICES ASSUME NEW i \in 1..Len(run'), NEW j \in 1..Len(run'), i <= j
               PROVE  run'[i].at <= run'[j].at
    BY <1>2 DEF Ordered
  <2>1. CASE j <= Len(run)
    <3>1. i \in 1..Len(run) /\ j \in 1..Len(run)
      BY <1>1, <1>2, <2>1
    <3> QED
      BY <1>3, <3>1 DEF RobotsInv, Ordered
  <2>2. CASE j > Len(run)
    BY <1>4, <1>6, <2>2
  <2> QED
    BY <1>1, <1>2, <2>1, <2>2
<1>8. Heard' = Heard
  <2>1. \A i \in 1..heard : run[i] \in EventSet /\ run'[i] \in EventSet /\ run'[i] = run[i]
    BY <1>1, <1>3
  <2>2. /\ Heard \in Seq(EventSet) /\ Len(Heard) = heard
        /\ \A i \in 1..heard : Heard[i] = run[i]
    BY <1>1, <2>1, SubSeqProperties DEF Heard
  <2>3. /\ SubSeq(run', 1, heard) \in Seq(EventSet) /\ Len(SubSeq(run', 1, heard)) = heard
        /\ \A i \in 1..heard : SubSeq(run', 1, heard)[i] = run'[i]
    BY <1>1, <2>1, SubSeqProperties
  <2> DEFINE new == SubSeq(run', 1, heard)
  <2>4. Len(Heard) = Len(new) /\ \A i \in 1..Len(Heard) : Heard[i] = new[i]
    BY <2>1, <2>2, <2>3
  <2>5. Heard = new
    BY <2>2, <2>3, <2>4, SeqEqual
  <2> QED
    BY <2>5 DEF Heard
<1>9. heard' \in 0..Len(run')
  BY <1>1, <1>2
<1> QED
  BY <1>6, <1>7, <1>8, <1>9 DEF RobotsInv, Remembered

LEMMA RobotsStepInv == RobotsInv /\ [RobotsNext]_bvars => RobotsInv'
<1> SUFFICES ASSUME RobotsInv, [RobotsNext]_bvars PROVE RobotsInv'
  OBVIOUS
<1>1. Ordered(run) /\ (\A i \in 1..Len(run) : run[i].at <= clock) /\ clock \in Nat /\ heard \in 0..Len(run)
  BY DEF RobotsInv
<1>2. CASE StartTurn
  <2> DEFINE more == IF run = <<>> THEN <<Stamped(Queued)>> ELSE <<Stamped(Asked), Stamped(Queued)>>
  <2>1. /\ Stamped(Queued) \in EventSet /\ Stamped(Asked) \in EventSet
        /\ Stamped(Queued).at = clock /\ Stamped(Asked).at = clock
    BY <1>1 DEF Stamped, Queued, Asked, EventSet
  <2> HIDE DEF Stamped
  <2>2. more \in Seq(EventSet) /\ \A i \in 1..Len(more) : more[i].at = clock
    BY <2>1
  <2>3. /\ run' = run \o more
        /\ UNCHANGED <<clock, heard, conversation, reachable, shown, now, timer, armedFor>>
    BY <1>2 DEF StartTurn
  <2> HIDE DEF more
  <2> QED
    BY <2>2, <2>3, StreamGrows
<1>3. ASSUME NEW e \in Events, Emit(e) PROVE RobotsInv'
  <2> DEFINE more == <<Stamped(e)>>
  <2>1. Stamped(e) \in EventSet /\ Stamped(e).at = clock
    BY <1>1 DEF Events, Stamped, EventSet
  <2> HIDE DEF Stamped
  <2>2. more \in Seq(EventSet) /\ \A i \in 1..Len(more) : more[i].at = clock
    BY <2>1
  <2>3. run' = run \o more
    BY <1>1, <1>3, <2>1, AppendIsConcat DEF Emit, Ordered
  <2>4. UNCHANGED <<clock, heard, conversation, reachable, shown, now, timer, armedFor>>
    BY <1>3 DEF Emit
  <2> HIDE DEF more
  <2> QED
    BY <2>2, <2>3, <2>4, StreamGrows
<1>4. CASE HearEvent
  <2>1. heard' \in 0..Len(run)
    BY <1>1, <1>4 DEF HearEvent, Ordered
  <2> QED
    BY <1>1, <1>4, <2>1, RerenderKeeps DEF HearEvent
<1>5. CASE RecordAnswers
  BY <1>1, <1>5, RerenderKeeps DEF RecordAnswers
<1>6. ASSUME NEW on \in BOOLEAN, Connection(on) PROVE RobotsInv'
  BY <1>1, <1>6, RerenderKeeps DEF Connection
<1>7. CASE TimerFires
  BY <1>7, TimerFiresKeeps
<1>8. CASE TimePasses
  <2>1. /\ clock' = clock + 1
        /\ UNCHANGED <<run, heard, conversation, reachable, shown, now, timer, armedFor>>
    BY <1>8 DEF TimePasses
  <2>2. \A i \in 1..Len(run) : run[i].at <= clock + 1
    <3> SUFFICES ASSUME NEW i \in 1..Len(run) PROVE run[i].at <= clock + 1
      OBVIOUS
    <3>1. run[i].at <= clock /\ run[i] \in EventSet
      BY <1>1 DEF Ordered
    <3>2. run[i].at \in Nat
      BY <3>1 DEF EventSet
    <3> QED
      BY <1>1, <3>1, <3>2
  <2>3. Heard' = Heard /\ Remembered' = Remembered
    BY <2>1 DEF Heard, Remembered
  <2> QED
    BY <2>1, <2>2, <2>3 DEF RobotsInv
<1>9. CASE UNCHANGED bvars
  BY <1>9 DEF bvars, RobotsInv, Remembered, Heard
<1> QED
  BY <1>2, <1>3, <1>4, <1>5, <1>6, <1>7, <1>8, <1>9 DEF RobotsNext

\* A robot that speaks, is done or shows an error on what it has heard has its timer set, for
\* no later than the end of that state's window (states.ts:106-132).
THEOREM RobotsLookAgain == RobotsSpec => []LooksAgain
<1>1. RobotsInv => LooksAgain
  <2> SUFFICES ASSUME RobotsInv, heard # 0, shown \in {"speaking", "done", "error"}
               PROVE  /\ timer # Never
                      /\ timer <= Max({clock, Last(Heard).at + Window(shown) + 1})
    BY DEF LooksAgain
  <2> DEFINE end == Last(Heard).at + Window(shown) + 1
  <2>1. Ordered(Heard) /\ Heard # <<>>
    BY HeardIsStart DEF RobotsInv, Ordered
  <2>2. Ordered(Remembered) /\ Remembered # <<>> /\ Last(Remembered) = Last(Heard)
    BY <2>1, KeptIsTail DEF Remembered
  <2>3. /\ timer = (IF now > end THEN now ELSE end)
        /\ timer \in Nat /\ end \in Nat
    <3>1. timer = nextChange(shown, Remembered, now) /\ shown \in Passing /\ now \in Nat
      BY DEF RobotsInv, Passing
    <3>2. end = Last(Remembered).at + Window(shown) + 1
      BY <2>2
    <3> HIDE DEF end
    <3>3. /\ nextChange(shown, Remembered, now) = IF now > end THEN now ELSE end
          /\ nextChange(shown, Remembered, now) \in Nat /\ end \in Nat
      BY <2>2, <3>1, <3>2, NextChangeIs
    <3> QED
      BY <3>1, <3>3
  <2> HIDE DEF end
  <2>4. \E x \in {clock, end} : \A y \in {clock, end} : x >= y
    BY <2>3 DEF RobotsInv
  <2>5. Max({clock, end}) >= clock /\ Max({clock, end}) >= end /\ Max({clock, end}) \in {clock, end}
    BY <2>4 DEF Max
  <2>6. timer <= Max({clock, end})
    BY <2>3, <2>5 DEF RobotsInv
  <2> QED
    BY <2>3, <2>6 DEF end, Never
<1> QED
  BY <1>1, RobotsInitInv, RobotsStepInv, PTL DEF RobotsSpec

\* The bounds, and what the proof above did not need.
RobotBounds ==
  /\ clock <= MaxTime /\ Len(run) <= MaxEvents
  /\ loading \in BOOLEAN /\ reachable \in BOOLEAN

LEMMA RobotsInitBounds == RobotsInit => RobotBounds
<1> SUFFICES ASSUME RobotsInit PROVE RobotBounds
  OBVIOUS
<1>1. Len(History) = 2 /\ Len(<<>>) = 0
  BY DEF History
<1>2. run \in {<<>>, History} /\ clock = (IF run = <<>> THEN 0 ELSE Finished + 1)
  BY DEF RobotsInit
<1>3. /\ Finished \in Nat /\ MaxTime \in Nat /\ MaxEvents \in Nat
      /\ Finished < MaxTime /\ MaxEvents >= 2
  BY RobotsAssumption
<1>4. clock <= MaxTime
  BY <1>2, <1>3
<1> HIDE DEF History
<1>5. Len(run) <= MaxEvents
  <2>1. Len(run) = 0 \/ Len(run) = 2
    BY <1>1, <1>2, Zenon
  <2>2. 0 <= MaxEvents /\ 2 <= MaxEvents
    BY <1>3
  <2> QED
    BY <2>1, <2>2, Zenon
<1>6. loading \in BOOLEAN /\ reachable \in BOOLEAN
  BY DEF RobotsInit
<1> QED
  BY <1>4, <1>5, <1>6 DEF RobotBounds

LEMMA RobotsStepBounds == RobotsInv /\ RobotBounds /\ [RobotsNext]_bvars => RobotBounds'
<1> SUFFICES ASSUME RobotsInv, RobotBounds, [RobotsNext]_bvars PROVE RobotBounds'
  OBVIOUS
<1>1. clock \in Nat /\ MaxTime \in Nat /\ MaxEvents \in Nat
  BY RobotsAssumption DEF RobotsInv
<1>2. CASE StartTurn
  BY <1>2 DEF StartTurn, RobotBounds
<1>3. ASSUME NEW e \in Events, Emit(e) PROVE RobotBounds'
  <2>1. run \in Seq(EventSet) /\ Stamped(e) \in EventSet
    BY <1>1 DEF RobotsInv, Ordered, Events, Stamped, EventSet
  <2>2. Len(Append(run, Stamped(e))) = Len(run) + 1 /\ Len(run) \in Nat
    BY <2>1
  <2>3. /\ Len(run) < MaxEvents /\ run' = Append(run, Stamped(e))
        /\ loading' = (loading \/ (e.kind = "status" /\ e.what \in Ends))
        /\ UNCHANGED <<clock, reachable>>
    BY <1>3 DEF Emit
  <2>4. Len(run') <= MaxEvents
    BY <1>1, <2>2, <2>3
  <2> QED
    BY <2>3, <2>4 DEF RobotBounds
<1>4. CASE HearEvent \/ RecordAnswers
  BY <1>4 DEF HearEvent, RecordAnswers, RobotBounds
<1>5. ASSUME NEW on \in BOOLEAN, Connection(on) PROVE RobotBounds'
  BY <1>5 DEF Connection, RobotBounds
<1>6. CASE TimerFires
  BY <1>6 DEF TimerFires, RobotBounds
<1>7. CASE TimePasses
  BY <1>1, <1>7 DEF TimePasses, RobotBounds
<1>8. CASE UNCHANGED bvars
  BY <1>8 DEF bvars, RobotBounds
<1> QED
  BY <1>2, <1>3, <1>4, <1>5, <1>6, <1>7, <1>8 DEF RobotsNext

LEMMA RobotHasTypes == RobotsInv /\ RobotBounds => RobotsTypeOK
<1> SUFFICES ASSUME RobotsInv, RobotBounds PROVE RobotsTypeOK
  OBVIOUS
<1>1. clock \in 0..MaxTime /\ now \in 0..clock /\ heard \in 0..Len(run)
  BY RobotsAssumption DEF RobotsInv, RobotBounds
<1>2. shown \in {"idle", "thinking", "reading", "writing", "speaking", "done", "error", "sleeping"}
  <2>1. \A rec, events, up, time :
          stateFromRun(rec, events, up, time) \in
            {"idle", "thinking", "reading", "writing", "speaking", "done", "error", "sleeping"}
    BY DEF stateFromRun, toolState
  <2> QED
    BY <2>1 DEF RobotsInv
<1>3. timer \in {Never} \cup Nat /\ armedFor = timer
  <2>1. Ordered(Remembered) /\ now \in Nat
    BY HeardIsStart, KeptIsTail DEF RobotsInv, Remembered
  <2>2. nextChange(shown, Remembered, now) \in {Never} \cup Nat
    BY <2>1, NextChangeIs
  <2> QED
    BY <2>2 DEF RobotsInv
<1> QED
  BY <1>1, <1>2, <1>3 DEF RobotsTypeOK, RobotBounds

\* The robot's clock is never ahead of the time, it shows one of its eight states, and its
\* timer is off or set to a time (states.ts:61-132).
THEOREM RobotsHaveTypes == RobotsSpec => []RobotsTypeOK
  BY RobotsInitInv, RobotsStepInv, RobotsInitBounds, RobotsStepBounds, RobotHasTypes, PTL DEF RobotsSpec

---------------------------------------------------------------------------
(* Views.  Whatever has loaded and failed, and in whatever order, a page    *)
(* works from facts of the office in one of its versions (ViewsTypeOK); the *)
(* rest is what num and the tables make of a value that is not there.       *)

LEMMA LoadsAreEndpoints ==
  /\ {"networth", "allocation", "decisions", "reports", "registry", "positions", "cashflow", "spend", "goals",
      "report", "levels", "files", "profile"} \subseteq Endpoints
  /\ \A p \in Pages : Loaded(p) \subseteq Endpoints
<1>1. \A p \in Pages : Loaded(p) \subseteq Endpoints
  BY DEF Endpoints
<1>2. {"home", "accounts", "holdings", "cashflow", "goals", "reader", "profile"} \subseteq Pages
  BY DEF Pages
<1> QED
  BY <1>1, <1>2 DEF Loaded

LEMMA ViewsInitTypes == ViewsInit => ViewsTypeOK
<1> SUFFICES ASSUME ViewsInit PROVE ViewsTypeOK
  OBVIOUS
<1>1. Quiet \in Fact
  BY DEF Fact
<1>2. \A f \in Fact : <<f, Quiet>> \in Seq(Fact) /\ <<Quiet, f>> \in Seq(Fact)
  BY <1>1
<1>3. office \in Seq(Fact) /\ Len(office) = 2
  BY <1>2 DEF ViewsInit
<1> QED
  BY <1>3, ViewsAssumption DEF ViewsInit, ViewsTypeOK

LEMMA ViewsStepTypes == ViewsTypeOK /\ [ViewsNext]_wvars => ViewsTypeOK'
<1> SUFFICES ASSUME ViewsTypeOK, [ViewsNext]_wvars PROVE ViewsTypeOK'
  OBVIOUS
<1> USE ViewsAssumption DEF ViewsTypeOK
<1>1. ASSUME NEW e \in Endpoints \cup Shared, Load(e) PROVE ViewsTypeOK'
  BY <1>1 DEF Load
<1>2. ASSUME NEW e \in Endpoints \cup Shared, LoadFails(e) PROVE ViewsTypeOK'
  BY <1>2 DEF LoadFails
<1>3. ASSUME NEW p \in Pages, Navigate(p) PROVE ViewsTypeOK'
  BY <1>3 DEF Navigate
<1>4. CASE OfficeChanges
  BY <1>4 DEF OfficeChanges
<1>5. CASE UNCHANGED wvars
  BY <1>5 DEF wvars
<1> QED
  BY <1>1, <1>2, <1>3, <1>4, <1>5 DEF ViewsNext

\* What a load holds is one of the office's facts.
LEMMA FactIs ==
  ASSUME NEW f \in Fact
  PROVE  /\ f.value \in Nat \cup {Absent, Garbled} /\ f.weight \in Nat \cup {Absent}
         /\ f.rich \in BOOLEAN /\ f.stale \in BOOLEAN /\ f.decision \in Verdicts
<1>1. CASE f = Bare
  BY <1>1 DEF Bare, Verdicts
<1>2. CASE f = Quiet
  <2>1. Quiet.weight = 15 /\ Quiet.value = 300
    BY DEF Bare, Quiet
  <2>2. Quiet.rich \in BOOLEAN /\ Quiet.stale \in BOOLEAN
    BY DEF Bare, Quiet
  <2>3. Quiet.decision \in Verdicts
    BY DEF Bare, Quiet, Verdicts
  <2> QED
    BY <1>2, <2>1, <2>2, <2>3
<1>3. CASE f \notin {Bare, Quiet}
  <2>1. f \in [decision : Verdicts, weight : Weights, value : Amounts, stale : BOOLEAN, rich : {TRUE}]
    BY <1>3 DEF Fact
  <2>2. f.weight \in Weights /\ f.value \in Amounts
    BY <2>1
  <2>3. f.rich \in BOOLEAN /\ f.stale \in BOOLEAN /\ f.decision \in Verdicts
    BY <2>1
  <2> QED
    BY <2>2, <2>3, ViewsAssumption
<1> QED
  BY <1>1, <1>2, <1>3

LEMMA FactsAreFacts ==
  ASSUME ViewsTypeOK, NEW e \in Endpoints \cup Shared, Has(e)
  PROVE  Facts(e) \in Fact
<1>1. got[e] = 1 \/ got[e] = 2
  BY DEF ViewsTypeOK, Has
<1>2. office[1] \in Fact /\ office[2] \in Fact
  BY ElementOfSeq DEF ViewsTypeOK
<1> QED
  BY <1>1, <1>2 DEF Facts

LEMMA HomeIsHonest == ASSUME ViewsTypeOK PROVE HomeSaysUnknown
<1>1. Has("networth") => Facts("networth").value \in Nat \cup {Absent, Garbled}
  BY LoadsAreEndpoints, FactsAreFacts, FactIs
<1> QED
  BY <1>1 DEF HomeSaysUnknown, HomeStats, Value, Facts, num, money, NetWorthDetail, Missing, UNKNOWN, Dots, Null,
              Absent, Garbled

LEMMA OverviewIsHonest == OverviewSaysUnknown
<1>1. ~Overview.loading /\ (~Has("networth") \/ Facts("networth").value < 0) => Overview.networth = UNKNOWN
  BY DEF Overview, Value, num, money, UNKNOWN, Null
<1>2. ASSUME ~Overview.loading, ~Has("allocation") \/ Facts("allocation").weight < 0
      PROVE  Overview.cash = UNKNOWN /\ \A bar \in Overview.bars : bar.state = "unknown" /\ bar.fill = 0
  <2>1. Weight = Null
    BY <1>2 DEF Weight, num, Null
  <2>2. bandState(Weight, Bands.min, Bands.max) = "unknown"
    BY <2>1 DEF bandState
  <2>3. Overview.cash = UNKNOWN
    BY <1>2, <2>1 DEF Overview, percent, money
  <2>4. Overview.bars \subseteq {AllocationBar(Weight, Bands.min, Bands.max)}
    BY <1>2 DEF Overview
  <2> QED
    BY <2>1, <2>2, <2>3, <2>4 DEF AllocationBar
<1> QED
  BY <1>1, <1>2 DEF OverviewSaysUnknown

LEMMA RowsAreHonest == RowsSayUnknown
<1>1. ASSUME Valueless("networth")
      PROVE  \A row \in Accounts.rows : row.value = UNKNOWN /\ row.status = "not reported"
  <2>1. money(Value) = UNKNOWN /\ AccountStatus = "not reported"
    BY <1>1 DEF Valueless, Value, num, money, AccountStatus, Missing, UNKNOWN, Null
  <2>2. \A row \in Accounts.rows : row.value = money(Value) /\ row.status = AccountStatus
    BY DEF Accounts, Table
  <2> QED
    BY <2>1, <2>2
<1>2. Valueless("positions") => \A row \in Holdings.rows : row.value = UNKNOWN /\ row.qty = UNKNOWN
  BY DEF Valueless, Holdings, Table, num, money, quantity, UNKNOWN, Null
<1>3. Valueless("spend") => Categories = {}
  BY DEF Valueless, Categories, num, Null
<1>4. Valueless("cashflow") => \A row \in Cashflow.rows : row.income = UNKNOWN /\ row.net = UNKNOWN
  BY DEF Valueless, Cashflow, Months6, num, money, UNKNOWN, Null
<1>5. Valueless("goals") => \A row \in Goals.rows : row.current = UNKNOWN /\ row.required = UNKNOWN
  BY DEF Valueless, Goals, Table, num, money, UNKNOWN, Null
<1> QED
  BY <1>1, <1>2, <1>3, <1>4, <1>5 DEF RowsSayUnknown

LEMMA NoneIsHonest == NoneWasTold
<1>1. view = "accounts" /\ Accounts.shows = "none" => ToldNone("networth")
  BY DEF Accounts, Table, Awaited, ToldNone, Notices
<1>2. view = "holdings" /\ Holdings.shows = "none" => ToldNone("positions")
  BY DEF Holdings, Table, Awaited, ToldNone, Notices
<1>3. view = "goals" /\ Goals.shows = "none" => ToldNone("goals")
  BY DEF Goals, Table, Awaited, ToldNone, Notices
<1>4. Reports("all", FALSE) = "no reports" => ToldNone("reports")
  BY ViewsAssumption DEF Reports, Library, Awaited, ToldNone
<1> QED
  BY <1>1, <1>2, <1>3, <1>4 DEF NoneWasTold

\* A value that the server does not have, or that has not come, is shown as unknown on every
\* page and never as zero, and a tab says that there is nothing only when it was told so
\* (format.ts:1).
THEOREM ViewsSayUnknown == ViewsSpec => []UnknownIsSaid
<1>1. ViewsSpec => []ViewsTypeOK
  BY ViewsInitTypes, ViewsStepTypes, PTL DEF ViewsSpec
<1>2. ProfileHasLoaded
  BY DEF ProfileHasLoaded, LevelCards, ProfileTabs, FilePanel, Panel, Awaited, Structured
<1>3. ViewsTypeOK => UnknownIsSaid
  BY <1>2, HomeIsHonest, OverviewIsHonest, RowsAreHonest, NoneIsHonest DEF UnknownIsSaid
<1> QED
  BY <1>1, <1>3, PTL

---------------------------------------------------------------------------
(* Reports.  The entries are in order because the count of those that are   *)
(* newer tells an entry from every other, and takes every value.            *)

LEMMA NewerIs ==
  ASSUME NEW a \in Entry, NEW b \in Entry, NEW c \in Entry
  PROVE  /\ ~Newer(a, a)
         /\ Newer(a, b) => ~Newer(b, a)
         /\ Newer(a, b) /\ Newer(b, c) => Newer(a, c)
         /\ a.path # b.path => Newer(a, b) \/ Newer(b, a)
<1> DEFINE N(r) == r.month \in Nat /\ r.day \in Nat /\ r.path \in Nat
<1>1. N(a) /\ N(b) /\ N(c)
  BY DEF Entry
<1> QED
  BY <1>1 DEF Newer

Newness(r, found) == Cardinality({s \in found : Newer(s, r)})

LEMMA NewnessIs ==
  ASSUME NEW found, IsFiniteSet(found), found \subseteq Entry, NEW r \in found
  PROVE  Newness(r, found) \in 0..(Cardinality(found) - 1)
<1> DEFINE S == {s \in found : Newer(s, r)}
<1>1. S \in SUBSET found /\ r \notin S
  BY NewerIs
<1>2. IsFiniteSet(S) /\ Cardinality(S) <= Cardinality(found) /\ Cardinality(S) # Cardinality(found)
  BY <1>1, FS_Subset
<1>3. Cardinality(S) \in Nat /\ Cardinality(found) \in Nat
  BY <1>2, FS_CardinalityType
<1> HIDE DEF S
<1>4. Cardinality(S) \in 0..(Cardinality(found) - 1)
  BY <1>2, <1>3
<1> QED
  BY <1>4 DEF Newness, S

LEMMA NewnessRises ==
  ASSUME NEW found, IsFiniteSet(found), found \subseteq Entry, NEW a \in found, NEW b \in found, Newer(a, b)
  PROVE  Newness(a, found) < Newness(b, found)
<1> DEFINE A == {s \in found : Newer(s, a)}
           B == {s \in found : Newer(s, b)}
<1>1. B \in SUBSET found /\ A \in SUBSET B /\ a \in B /\ a \notin A
  BY NewerIs
<1> HIDE DEF A, B
<1>2. IsFiniteSet(B)
  BY <1>1, FS_Subset
<1>3. IsFiniteSet(A) /\ Cardinality(A) <= Cardinality(B) /\ Cardinality(A) # Cardinality(B)
  BY <1>1, <1>2, FS_Subset
<1>4. Cardinality(A) \in Nat /\ Cardinality(B) \in Nat
  BY <1>2, <1>3, FS_CardinalityType
<1>5. Cardinality(A) < Cardinality(B)
  BY <1>3, <1>4
<1> QED
  BY <1>5 DEF Newness, A, B

\* A set of reports of an office, whose paths tell them apart.
Apart(found) ==
  /\ IsFiniteSet(found) /\ found \subseteq Entry
  /\ \A r, s \in found : r.path = s.path => r = s

LEMMA NewnessTells ==
  ASSUME NEW found, Apart(found), NEW a \in found, NEW b \in found
  PROVE  /\ Newness(a, found) = Newness(b, found) => a = b
         /\ Newness(a, found) < Newness(b, found) => Newer(a, b)
<1>1. Newness(a, found) \in 0..(Cardinality(found) - 1) /\ Newness(b, found) \in 0..(Cardinality(found) - 1)
  BY NewnessIs DEF Apart
<1>2. a # b => Newer(a, b) \/ Newer(b, a)
  BY NewerIs DEF Apart
<1>3. Newer(a, b) => Newness(a, found) < Newness(b, found)
  BY NewnessRises DEF Apart
<1>4. Newer(b, a) => Newness(b, found) < Newness(a, found)
  BY NewnessRises DEF Apart
<1>5. Newness(a, found) \in Int /\ Newness(b, found) \in Int
  BY <1>1
<1> QED
  BY <1>2, <1>3, <1>4, <1>5

LEMMA EveryNewness ==
  ASSUME NEW found, Apart(found), NEW k \in 0..(Cardinality(found) - 1)
  PROVE  \E r \in found : Newness(r, found) = k
<1> DEFINE n == Cardinality(found)
           f == [r \in found |-> Newness(r, found)]
<1>1. n \in Nat
  BY FS_CardinalityType DEF Apart
<1>2. f \in [found -> 0..(n - 1)]
  BY NewnessIs DEF Apart
<1>3. \A a, b \in found : f[a] = f[b] => a = b
  BY NewnessTells
<1>4. f \in Injection(found, 0..(n - 1))
  BY <1>2, <1>3 DEF Injection, IsInjective
<1>5. IsFiniteSet(0..(n - 1)) /\ Cardinality(0..(n - 1)) = n
  <2>1. 0 \in Int /\ n - 1 \in Int
    BY <1>1
  <2> HIDE DEF n
  <2>2. Cardinality(0..(n - 1)) = (IF 0 > n - 1 THEN 0 ELSE (n - 1) - 0 + 1)
    BY <2>1, FS_Interval
  <2>3. IsFiniteSet(0..(n - 1))
    BY <2>1, FS_Interval
  <2> QED
    BY <1>1, <2>2, <2>3
<1>6. f \in Surjection(found, 0..(n - 1))
  <2> HIDE DEF f
  <2> QED
    BY <1>4, <1>5, FS_Injection
<1>7. \A i \in 0..(n - 1) : \E r \in found : f[r] = i
  BY <1>6 DEF Surjection
<1> QED
  BY <1>7

\* Each entry is newer than those after it.
Falls(s) == \A i, j \in DOMAIN s : i < j => Newer(s[i], s[j])

\* The entries that match, in order.
InOrder(s, found) ==
  /\ s \in Seq(found) /\ Falls(s)
  /\ \A r \in found : \E i \in DOMAIN s : s[i] = r

LEMMA EntriesInOrder ==
  ASSUME NEW f, NEW kind, NEW searching, Apart(Matching(f, kind, searching))
  PROVE  InOrder(Entries(f, kind, searching), Matching(f, kind, searching))
<1> DEFINE found == Matching(f, kind, searching)
           n == Cardinality(found)
           s == [i \in 1..n |-> CHOOSE r \in found : Newness(r, found) = i - 1]
<1>1. Entries(f, kind, searching) = s
  BY DEF Entries, Newness
<1> HIDE DEF found
<1>2. n \in Nat /\ Apart(found)
  BY FS_CardinalityType DEF Apart, found
<1>3. ASSUME NEW i \in 1..n PROVE s[i] \in found /\ Newness(s[i], found) = i - 1
  <2>1. i - 1 \in 0..(n - 1)
    BY <1>2
  <2>2. \E r \in found : Newness(r, found) = i - 1
    BY <1>2, <2>1, EveryNewness
  <2> QED
    BY <2>2
<1>4. DOMAIN s = 1..n
  OBVIOUS
<1>5. s \in Seq(found)
  BY <1>2, <1>3
<1>6. \A r \in found : \E i \in 1..n : s[i] = r
  <2> SUFFICES ASSUME NEW r \in found PROVE \E i \in 1..n : s[i] = r
    OBVIOUS
  <2> DEFINE i == Newness(r, found) + 1
  <2>1. i \in 1..n /\ Newness(r, found) = i - 1
    <3>1. Newness(r, found) \in 0..(n - 1)
      BY <1>2, NewnessIs DEF Apart
    <3> QED
      BY <1>2, <3>1
  <2> HIDE DEF i, s
  <2>2. s[i] \in found /\ Newness(s[i], found) = Newness(r, found)
    BY <1>3, <2>1
  <2> QED
    BY <1>2, <2>1, <2>2, NewnessTells
<1> HIDE DEF s
<1>7. Falls(s)
  <2> SUFFICES ASSUME NEW i \in 1..n, NEW j \in 1..n, i < j PROVE Newer(s[i], s[j])
    BY <1>4 DEF Falls
  <2>1. s[i] \in found /\ s[j] \in found /\ Newness(s[i], found) = i - 1 /\ Newness(s[j], found) = j - 1
    BY <1>3
  <2>2. i - 1 < j - 1
    BY <1>2
  <2> QED
    BY <1>2, <2>1, <2>2, NewnessTells
<1> QED
  BY <1>1, <1>4, <1>5, <1>6, <1>7 DEF InOrder, found

---------------------------------------------------------------------------
(* The months, put together one entry after the other.                      *)

Shelves == UNION {[S -> Seq(Shelf)] : S \in SUBSET Nat}

\* One entry more, on what there is before it.
PutUnder(before, entry) ==
  [m \in DOMAIN before \cup {entry.month} |->
     IF m # entry.month THEN before[m]
     ELSE IF m \in DOMAIN before THEN Append(before[m], entry) ELSE <<entry>>]

Shelve(F, entries) == IF entries = <<>> THEN <<>> ELSE PutUnder(F[Front(entries)], Last(entries))

LEMMA ShelfIs == \A r \in Shelf : r \in Entry /\ r.month \in Nat
BY ViewsAssumption DEF Entry

LEMMA FrontIs ==
  ASSUME NEW entries \in Seq(Shelf), entries # <<>>
  PROVE  /\ Len(entries) \in Nat /\ 1 <= Len(entries) /\ DOMAIN entries = 1..Len(entries)
         /\ Front(entries) \in Seq(Shelf) /\ Len(Front(entries)) = Len(entries) - 1
         /\ DOMAIN Front(entries) = 1..(Len(entries) - 1)
         /\ \A i \in 1..(Len(entries) - 1) : Front(entries)[i] = entries[i]
         /\ Last(entries) \in Shelf /\ Last(entries) = entries[Len(entries)]
<1>1. Len(entries) \in Nat /\ 1 <= Len(entries) /\ DOMAIN entries = 1..Len(entries)
  OBVIOUS
<1>2. Last(entries) = entries[Len(entries)] /\ Last(entries) \in Shelf
  BY <1>1 DEF Last
<1>3. Front(entries) = SubSeq(entries, 1, Len(entries) - 1)
  BY DEF Front
<1>4. Front(entries) \in Seq(Shelf) /\ Len(Front(entries)) = Len(entries) - 1
      /\ \A i \in 1..(Len(entries) - 1) : Front(entries)[i] = entries[i]
  BY <1>1, <1>3
<1>5. DOMAIN Front(entries) = 1..(Len(entries) - 1)
  BY <1>4
<1> QED
  BY <1>1, <1>2, <1>4, <1>5

LEMMA EmptyShelf == <<>> \in Shelves
<1>1. <<>> \in [{} -> Seq(Shelf)]
  OBVIOUS
<1> QED
  BY <1>1 DEF Shelves

LEMMA PutIs ==
  ASSUME NEW before \in Shelves, NEW entry \in Shelf
  PROVE  /\ PutUnder(before, entry) \in Shelves
         /\ DOMAIN PutUnder(before, entry) = DOMAIN before \cup {entry.month}
         /\ \A m \in DOMAIN before : m # entry.month => PutUnder(before, entry)[m] = before[m]
         /\ entry.month \in DOMAIN before => PutUnder(before, entry)[entry.month] = Append(before[entry.month], entry)
         /\ entry.month \notin DOMAIN before => PutUnder(before, entry)[entry.month] = <<entry>>
<1>1. PICK S \in SUBSET Nat : before \in [S -> Seq(Shelf)]
  BY DEF Shelves
<1>2. entry.month \in Nat
  BY ShelfIs
<1> DEFINE T == S \cup {entry.month}
           P == PutUnder(before, entry)
<1>3. /\ DOMAIN P = T /\ P = [m \in T |-> P[m]]
      /\ \A m \in S : m # entry.month => P[m] = before[m]
      /\ entry.month \in S => P[entry.month] = Append(before[entry.month], entry)
      /\ entry.month \notin S => P[entry.month] = <<entry>>
  BY <1>1 DEF PutUnder
<1> HIDE DEF P
<1>4. \A m \in T : P[m] \in Seq(Shelf)
  <2> SUFFICES ASSUME NEW m \in T PROVE P[m] \in Seq(Shelf)
    OBVIOUS
  <2>1. CASE m # entry.month
    BY <1>1, <1>3, <2>1
  <2>2. CASE m = entry.month /\ m \in S
    <3>1. before[m] \in Seq(Shelf)
      BY <1>1, <2>2
    <3>2. Append(before[m], entry) \in Seq(Shelf)
      BY <3>1
    <3>3. P[m] = Append(before[m], entry)
      BY <1>3, <2>2
    <3> QED
      BY <3>2, <3>3
  <2>3. CASE m = entry.month /\ m \notin S
    <3>1. <<entry>> \in Seq(Shelf)
      OBVIOUS
    <3>2. P[m] = <<entry>>
      BY <1>3, <2>3
    <3> QED
      BY <3>1, <3>2
  <2> QED
    BY <2>1, <2>2, <2>3
<1>5. P \in [T -> Seq(Shelf)] /\ T \in SUBSET Nat
  BY <1>2, <1>3, <1>4
<1>6. P \in Shelves
  BY <1>5 DEF Shelves
<1> QED
  BY <1>1, <1>3, <1>6 DEF P

LEMMA ShelveIs ==
  ASSUME NEW F \in [Seq(Shelf) -> Shelves], NEW entries \in Seq(Shelf)
  PROVE  Shelve(F, entries) \in Shelves
<1>1. CASE entries = <<>>
  BY <1>1, EmptyShelf DEF Shelve
<1>2. CASE entries # <<>>
  BY <1>2, FrontIs, PutIs DEF Shelve
<1> QED
  BY <1>1, <1>2

MonthsOf(F) == [entries \in Seq(Shelf) |-> Shelve(F, entries)]

LEMMA MonthsExist == \E F \in [Seq(Shelf) -> Shelves] : F = MonthsOf(F)
<1> DEFINE D == Seq(Shelf)
           step == [F \in [D -> Shelves] |-> MonthsOf(F)]
           size == [entries \in D |-> Len(entries)]
<1>1. Shelves # {}
  BY EmptyShelf
<1>2. size \in [D -> Nat]
  OBVIOUS
<1>3. step \in [[D -> Shelves] -> [D -> Shelves]]
  BY ShelveIs DEF MonthsOf
<1>4. LooksBack(step, D, Shelves, size)
  <2> SUFFICES ASSUME NEW F \in [D -> Shelves], NEW G \in [D -> Shelves], NEW entries \in D,
                      \A y \in D : size[y] < size[entries] => F[y] = G[y]
               PROVE  step[F][entries] = step[G][entries]
    BY DEF LooksBack
  <2>1. step[F][entries] = Shelve(F, entries) /\ step[G][entries] = Shelve(G, entries)
    BY DEF MonthsOf
  <2>2. CASE entries = <<>>
    BY <2>1, <2>2 DEF Shelve
  <2>3. CASE entries # <<>>
    <3>1. Front(entries) \in D /\ Len(Front(entries)) = Len(entries) - 1 /\ Len(entries) \in Nat
      BY <2>3, FrontIs
    <3>2. size[Front(entries)] < size[entries]
      BY <3>1
    <3>3. F[Front(entries)] = G[Front(entries)]
      BY <3>1, <3>2
    <3> QED
      BY <2>1, <3>3 DEF Shelve
  <2> QED
    BY <2>2, <2>3
<1> HIDE DEF step, size, D
<1>5. HasFixed(step, D, Shelves)
  BY <1>1, <1>2, <1>3, <1>4, FixedPoint
<1>6. PICK F \in [D -> Shelves] : F = step[F]
  BY <1>5 DEF HasFixed
<1>7. step[F] = MonthsOf(F)
  BY DEF step
<1> QED
  BY <1>6, <1>7 DEF D

LEMMA MonthsRead == months = MonthsOf(months)
<1> DEFINE chosen == CHOOSE F : F = MonthsOf(F)
<1>1. chosen = MonthsOf(chosen)
  BY MonthsExist
<1>2. months = chosen
  BY DEF months, MonthsOf, Shelve, PutUnder
<1> HIDE DEF chosen
<1> QED
  BY <1>1, <1>2

LEMMA MonthsAre ==
  ASSUME NEW entries \in Seq(Shelf)
  PROVE  months[entries] = Shelve(months, entries)
<1>1. MonthsOf(months)[entries] = Shelve(months, entries)
  BY DEF MonthsOf
<1> QED
  BY <1>1, MonthsRead

\* Under its month every entry there is, and under a month only entries, in their order.
Holds(listed, entries) ==
  /\ listed \in Shelves
  /\ \A i \in DOMAIN entries :
       /\ entries[i].month \in DOMAIN listed
       /\ \E k \in DOMAIN listed[entries[i].month] : listed[entries[i].month][k] = entries[i]
  /\ \A m \in DOMAIN listed : \A k \in DOMAIN listed[m] : \E i \in DOMAIN entries : entries[i] = listed[m][k]
  /\ Falls(entries) => \A m \in DOMAIN listed : Falls(listed[m])

Shelved(entries) == Holds(months[entries], entries)

LEMMA ShelvesAre ==
  ASSUME NEW F \in Shelves, NEW m \in DOMAIN F
  PROVE  F[m] \in Seq(Shelf) /\ Len(F[m]) \in Nat /\ DOMAIN F[m] = 1..Len(F[m])
<1>1. PICK S \in SUBSET Nat : F \in [S -> Seq(Shelf)]
  BY DEF Shelves
<1>2. F[m] \in Seq(Shelf)
  BY <1>1
<1> QED
  BY <1>2

LEMMA AppendIs ==
  ASSUME NEW s \in Seq(Shelf), NEW e \in Shelf
  PROVE  /\ DOMAIN Append(s, e) = 1..(Len(s) + 1) /\ Len(s) \in Nat
         /\ \A i \in 1..Len(s) : Append(s, e)[i] = s[i]
         /\ Append(s, e)[Len(s) + 1] = e
OBVIOUS

LEMMA PutShelves ==
  ASSUME NEW entries \in Seq(Shelf), entries # <<>>, Shelved(Front(entries))
  PROVE  Shelved(entries)
<1> DEFINE front == Front(entries)
           entry == Last(entries)
           n == Len(entries)
           old == months[front]
           new == months[entries]
           m0 == entry.month
<1>1. /\ n \in Nat /\ 1 <= n /\ DOMAIN entries = 1..n
      /\ front \in Seq(Shelf) /\ DOMAIN front = 1..(n - 1)
      /\ \A i \in 1..(n - 1) : front[i] = entries[i]
      /\ entry \in Shelf /\ entry = entries[n]
  BY FrontIs
<1>2. new = PutUnder(old, entry)
  BY MonthsAre DEF Shelve
<1>3. /\ old \in Shelves
      /\ \A i \in 1..(n - 1) : /\ front[i].month \in DOMAIN old
                               /\ \E k \in DOMAIN old[front[i].month] : old[front[i].month][k] = front[i]
      /\ \A m \in DOMAIN old : \A k \in DOMAIN old[m] : \E i \in 1..(n - 1) : front[i] = old[m][k]
      /\ Falls(front) => \A m \in DOMAIN old : Falls(old[m])
  <2>1. Holds(old, front)
    BY DEF Shelved
  <2>2. DOMAIN front = 1..(n - 1)
    BY <1>1
  <2> HIDE DEF old, front, n
  <2>3. old \in Shelves /\ (Falls(front) => \A m \in DOMAIN old : Falls(old[m]))
    BY <2>1 DEF Holds
  <2>4. ASSUME NEW i \in DOMAIN front
        PROVE  front[i].month \in DOMAIN old /\ \E k \in DOMAIN old[front[i].month] : old[front[i].month][k] = front[i]
    BY <2>1, Zenon DEF Holds
  <2>5. ASSUME NEW m \in DOMAIN old, NEW k \in DOMAIN old[m]
        PROVE  \E i \in DOMAIN front : front[i] = old[m][k]
    BY <2>1, Zenon DEF Holds
  <2> QED
    BY <2>2, <2>3, <2>4, <2>5, Zenon
<1> HIDE DEF front, entry, n, old, new
<1>4. /\ new \in Shelves /\ DOMAIN new = DOMAIN old \cup {m0}
      /\ \A m \in DOMAIN old : m # m0 => new[m] = old[m]
      /\ m0 \in DOMAIN old => new[m0] = Append(old[m0], entry)
      /\ m0 \notin DOMAIN old => new[m0] = <<entry>>
  BY <1>1, <1>2, <1>3, PutIs
<1>5. ASSUME m0 \in DOMAIN old
      PROVE  /\ Len(old[m0]) \in Nat /\ DOMAIN old[m0] = 1..Len(old[m0])
             /\ DOMAIN new[m0] = 1..(Len(old[m0]) + 1)
             /\ \A k \in 1..Len(old[m0]) : new[m0][k] = old[m0][k]
             /\ new[m0][Len(old[m0]) + 1] = entry
  <2>1. old[m0] \in Seq(Shelf) /\ Len(old[m0]) \in Nat /\ DOMAIN old[m0] = 1..Len(old[m0])
    BY <1>3, <1>5, ShelvesAre
  <2> DEFINE s == old[m0]
  <2>2. new[m0] = Append(s, entry) /\ s \in Seq(Shelf) /\ entry \in Shelf
    BY <1>1, <1>4, <1>5, <2>1
  <2>3. Len(s) \in Nat /\ DOMAIN s = 1..Len(s)
    BY <2>1
  <2> HIDE DEF s
  <2>4. /\ DOMAIN new[m0] = 1..(Len(s) + 1)
        /\ \A k \in 1..Len(s) : new[m0][k] = s[k]
        /\ new[m0][Len(s) + 1] = entry
    BY <2>2, AppendIs
  <2> QED
    BY <2>3, <2>4 DEF s
<1>6. ASSUME m0 \notin DOMAIN old PROVE DOMAIN new[m0] = {1} /\ new[m0][1] = entry
  BY <1>4, <1>6
<1>7. ASSUME NEW m \in DOMAIN old, NEW k \in DOMAIN old[m]
      PROVE  k \in DOMAIN new[m] /\ new[m][k] = old[m][k]
  <2>1. CASE m # m0
    BY <1>4, <2>1
  <2>2. CASE m = m0
    BY <1>5, <1>7, <2>2
  <2> QED
    BY <2>1, <2>2
<1>8. m0 \in DOMAIN new /\ \E k \in DOMAIN new[m0] : new[m0][k] = entry
  <2>1. CASE m0 \in DOMAIN old
    <3>1. Len(old[m0]) + 1 \in DOMAIN new[m0]
      BY <1>5, <2>1
    <3> QED
      BY <1>4, <1>5, <2>1, <3>1
  <2>2. CASE m0 \notin DOMAIN old
    BY <1>4, <1>6, <2>2
  <2> QED
    BY <2>1, <2>2
<1>9. ASSUME NEW i \in 1..n
      PROVE  /\ entries[i].month \in DOMAIN new
             /\ \E k \in DOMAIN new[entries[i].month] : new[entries[i].month][k] = entries[i]
  <2>1. CASE i = n
    BY <1>1, <1>8, <2>1
  <2>2. CASE i # n
    <3>1. i \in 1..(n - 1)
      BY <1>1, <2>2
    <3>2. entries[i] = front[i] /\ front[i].month \in DOMAIN old
      BY <1>1, <1>3, <3>1
    <3>3. PICK k \in DOMAIN old[front[i].month] : old[front[i].month][k] = front[i]
      BY <1>3, <3>1
    <3> QED
      BY <1>4, <1>7, <3>2, <3>3
  <2> QED
    BY <2>1, <2>2
<1>10. ASSUME NEW m \in DOMAIN new, NEW k \in DOMAIN new[m]
       PROVE  \/ m = m0 /\ new[m][k] = entry /\ \A j \in DOMAIN new[m] : j <= k
              \/ m \in DOMAIN old /\ k \in DOMAIN old[m] /\ new[m][k] = old[m][k]
  <2>1. CASE m # m0
    BY <1>4, <1>10, <2>1
  <2>2. CASE m = m0 /\ m0 \in DOMAIN old
    <3>1. k \in 1..(Len(old[m0]) + 1) /\ Len(old[m0]) \in Nat
      BY <1>5, <1>10, <2>2
    <3>2. CASE k = Len(old[m0]) + 1
      BY <1>5, <2>2, <3>1, <3>2
    <3>3. CASE k # Len(old[m0]) + 1
      <4>1. k \in 1..Len(old[m0])
        BY <3>1, <3>3
      <4> QED
        BY <1>5, <2>2, <4>1
    <3> QED
      BY <3>2, <3>3
  <2>3. CASE m = m0 /\ m0 \notin DOMAIN old
    BY <1>6, <1>10, <2>3
  <2> QED
    BY <2>1, <2>2, <2>3
<1>11. ASSUME NEW m \in DOMAIN new, NEW k \in DOMAIN new[m]
       PROVE  \E i \in 1..n : entries[i] = new[m][k]
  <2>1. CASE new[m][k] = entry
    <3>1. n \in 1..n
      BY <1>1
    <3> QED
      BY <1>1, <2>1, <3>1
  <2>2. CASE m \in DOMAIN old /\ k \in DOMAIN old[m] /\ new[m][k] = old[m][k]
    <3>1. PICK i \in 1..(n - 1) : front[i] = old[m][k]
      BY <1>3, <2>2
    <3>2. i \in 1..n /\ entries[i] = front[i]
      BY <1>1
    <3> QED
      BY <2>2, <3>1, <3>2
  <2> QED
    BY <1>10, <2>1, <2>2
<1>12. ASSUME Falls(entries), NEW m \in DOMAIN new PROVE Falls(new[m])
  <2>0. Falls(front)
    <3> SUFFICES ASSUME NEW i \in 1..(n - 1), NEW j \in 1..(n - 1), i < j PROVE Newer(front[i], front[j])
      BY <1>1 DEF Falls
    <3>1. i \in 1..n /\ j \in 1..n
      BY <1>1
    <3> QED
      BY <1>1, <1>12, <3>1 DEF Falls
  <2> SUFFICES ASSUME NEW i \in DOMAIN new[m], NEW j \in DOMAIN new[m], i < j
               PROVE  Newer(new[m][i], new[m][j])
    BY DEF Falls
  <2>00. i \in Nat /\ j \in Nat
    BY <1>4, ShelvesAre
  <2>1. m \in DOMAIN old /\ i \in DOMAIN old[m] /\ new[m][i] = old[m][i]
    BY <1>10, <2>00
  <2>2. CASE m \in DOMAIN old /\ j \in DOMAIN old[m] /\ new[m][j] = old[m][j]
    <3>1. Falls(old[m])
      BY <1>3, <2>0, <2>2
    <3> QED
      BY <2>1, <2>2, <3>1 DEF Falls
  <2>3. CASE new[m][j] = entry
    <3>1. PICK k \in 1..(n - 1) : front[k] = old[m][i]
      BY <1>3, <2>1
    <3>2. k \in 1..n /\ n \in 1..n /\ k < n /\ entries[k] = front[k]
      BY <1>1
    <3>3. Newer(entries[k], entries[n])
      BY <1>1, <1>12, <3>2 DEF Falls
    <3> QED
      BY <1>1, <2>1, <2>3, <3>1, <3>2, <3>3
  <2> QED
    BY <1>10, <2>2, <2>3
<1>13. Falls(entries) => \A m \in DOMAIN new : Falls(new[m])
  BY <1>12
<1> QED
  <2>1. Holds(new, entries)
    BY <1>1, <1>4, <1>9, <1>11, <1>13 DEF Holds
  <2> QED
    BY <2>1 DEF Shelved, new

LEMMA AlwaysShelved ==
  ASSUME NEW entries \in Seq(Shelf)
  PROVE  Shelved(entries)
<1> DEFINE Bad == {s \in Seq(Shelf) : ~Shelved(s)}
           Sizes == {Len(s) : s \in Bad}
<1> SUFFICES ASSUME ~Shelved(entries) PROVE FALSE
  OBVIOUS
<1>1. Sizes \in SUBSET Nat /\ Sizes # {}
  <2>1. entries \in Bad /\ \A s \in Bad : Len(s) \in Nat
    OBVIOUS
  <2> HIDE DEF Bad
  <2> QED
    BY <2>1
<1>2. PICK k \in Sizes : \A i \in Sizes : k <= i
  <2> HIDE DEF Sizes
  <2> QED
    BY <1>1, LeastNatural
<1>3. PICK s \in Bad : k = Len(s)
  BY <1>2
<1>4. s \in Seq(Shelf) /\ ~Shelved(s)
  BY <1>3
<1>5. s # <<>>
  <2>1. Shelved(<<>>)
    <3>1. <<>> \in Seq(Shelf)
      OBVIOUS
    <3>2. months[<<>>] = Shelve(months, <<>>)
      BY <3>1, MonthsAre
    <3>3. months[<<>>] = <<>>
      BY <3>2 DEF Shelve
    <3>4. DOMAIN <<>> = {}
      OBVIOUS
    <3>5. Holds(<<>>, <<>>)
      BY <3>4, EmptyShelf DEF Holds
    <3> QED
      BY <3>3, <3>5 DEF Shelved
  <2> QED
    BY <1>4, <2>1
<1>6. ~Shelved(Front(s)) /\ Front(s) \in Seq(Shelf) /\ Len(Front(s)) = Len(s) - 1 /\ Len(s) \in Nat
  BY <1>4, <1>5, PutShelves, FrontIs
<1>7. Len(Front(s)) \in Sizes
  BY <1>6
<1>8. k <= Len(Front(s))
  BY <1>2, <1>7
<1> HIDE DEF Sizes, Bad
<1> QED
  BY <1>3, <1>6, <1>8

LEMMA SettledLoads ==
  ASSUME ViewsTypeOK, Settled
  PROVE  /\ office[version] \in Fact
         /\ \A e \in InUse : Has(e) /\ Facts(e) = office[version] /\ ~Awaited(e) /\ e \notin failed
<1>1. version = 1 \/ version = 2
  BY DEF ViewsTypeOK
<1>2. office[1] \in Fact /\ office[2] \in Fact
  BY ElementOfSeq DEF ViewsTypeOK
<1> QED
  BY <1>1, <1>2 DEF Settled, Has, Facts, Awaited

LEMMA MatchingApart ==
  ASSUME NEW f, NEW kind, NEW searching
  PROVE  Apart(Matching(f, kind, searching)) /\ Matching(f, kind, searching) \in SUBSET Shelf
<1> DEFINE found == Matching(f, kind, searching)
<1>1. found \in SUBSET Shelf
  BY DEF Matching, Library
<1> HIDE DEF found
<1>2. IsFiniteSet(found)
  BY <1>1, FS_Subset, ViewsAssumption
<1> QED
  BY <1>1, <1>2, ViewsAssumption DEF Apart, found

LEMMA ReportsAreWhole ==
  ASSUME ViewsTypeOK, Settled, view = "reports", NEW kind, NEW searching
  PROVE  ReportsWhole(kind, searching)
<1> DEFINE f == office[version]
           found == Matching(f, kind, searching)
           s == Entries(f, kind, searching)
           listed == months[s]
<1>1. Facts("reports") = f
  BY SettledLoads DEF InUse, Loaded
<1>2. Apart(found) /\ found \in SUBSET Shelf
  BY MatchingApart
<1>3. s \in Seq(found) /\ Falls(s) /\ \A r \in found : \E i \in DOMAIN s : s[i] = r
  BY <1>2, EntriesInOrder DEF InOrder
<1>4. s \in Seq(Shelf)
  BY <1>2, <1>3
<1>5. Holds(listed, s)
  BY <1>4, AlwaysShelved DEF Shelved
<1> HIDE DEF found, s, listed
<1>6. listed \in Shelves /\ \A m \in DOMAIN listed : Falls(listed[m])
  BY <1>3, <1>5 DEF Holds
<1>7. ASSUME NEW r \in found PROVE Cardinality({i \in DOMAIN listed[r.month] : listed[r.month][i] = r}) = 1
  <2> DEFINE m == r.month
  <2>1. PICK j \in DOMAIN s : s[j] = r
    BY <1>3
  <2>2. m \in DOMAIN listed /\ \E k \in DOMAIN listed[m] : listed[m][k] = r
    BY <1>5, <2>1 DEF Holds
  <2>3. PICK k \in DOMAIN listed[m] : listed[m][k] = r
    BY <2>2
  <2>4. listed[m] \in Seq(Shelf) /\ DOMAIN listed[m] = 1..Len(listed[m]) /\ Falls(listed[m])
    BY <1>6, <2>2, ShelvesAre
  <2>5. ~Newer(r, r)
    BY <1>2, ShelfIs, NewerIs
  <2>6. ASSUME NEW i \in DOMAIN listed[m], listed[m][i] = r PROVE i = k
    <3>1. ~(i < k) /\ ~(k < i)
      BY <2>3, <2>4, <2>5, <2>6 DEF Falls
    <3> QED
      BY <2>4, <3>1
  <2>7. {i \in DOMAIN listed[m] : listed[m][i] = r} = {k}
    BY <2>3, <2>6
  <2> QED
    BY <2>7, FS_Singleton
<1>8. ASSUME NEW m \in DOMAIN listed, NEW i \in DOMAIN listed[m]
      PROVE  listed[m][i] \in found /\ (i > 1 => Newer(listed[m][i - 1], listed[m][i]))
  <2>1. PICK j \in DOMAIN s : s[j] = listed[m][i]
    BY <1>5 DEF Holds
  <2>2. s[j] \in found
    BY <1>3, ElementOfSeq
  <2>3. DOMAIN listed[m] = 1..Len(listed[m]) /\ Len(listed[m]) \in Nat
    BY <1>6, ShelvesAre
  <2>4. i > 1 => i - 1 \in DOMAIN listed[m] /\ i - 1 < i
    BY <2>3
  <2>5. i > 1 => Newer(listed[m][i - 1], listed[m][i])
    BY <1>6, <2>4 DEF Falls
  <2> QED
    BY <2>1, <2>2, <2>5
<1> QED
  BY <1>1, <1>7, <1>8 DEF ReportsWhole, found, s, listed

---------------------------------------------------------------------------
(* The bars: what is further along is not drawn shorter, on any scale.      *)

LEMMA MinIs ==
  ASSUME NEW a \in Int, NEW b \in Int
  PROVE  Min({a, b}) = IF a <= b THEN a ELSE b
<1>1. Min({a, b}) \in {a, b} /\ \A x \in {a, b} : Min({a, b}) <= x
  <2>1. \E m \in {a, b} : \A x \in {a, b} : m <= x
    OBVIOUS
  <2> QED
    BY <2>1 DEF Min
<1> QED
  BY <1>1

LEMMA MaxIs ==
  ASSUME NEW a \in Int, NEW b \in Int
  PROVE  Max({a, b}) = IF a >= b THEN a ELSE b
<1>1. Max({a, b}) \in {a, b} /\ \A x \in {a, b} : Max({a, b}) >= x
  <2>1. \E m \in {a, b} : \A x \in {a, b} : m >= x
    OBVIOUS
  <2> QED
    BY <2>1 DEF Max
<1> QED
  BY <1>1

LEMMA DivRises ==
  ASSUME NEW a \in Nat, NEW b \in Nat, a <= b, NEW s \in Nat, 10 <= s
  PROVE  a \div s \in Nat /\ b \div s \in Nat /\ a \div s <= b \div s
OBVIOUS

LEMMA ScaleIs ==
  ASSUME NEW weight \in Nat \cup {Null}, NEW max \in Nat
  PROVE  Scale(weight, max) \in Nat /\ 10 <= Scale(weight, max)
<1> DEFINE w == orZero(weight)
           wanted == Max({w, max})
           s == 5 * ((wanted + 3) \div 4)
<1>1. w \in Nat
  BY DEF orZero, Null
<1> HIDE DEF w
<1>2. wanted \in Nat
  BY <1>1, MaxIs
<1> HIDE DEF wanted
<1>3. s \in Nat
  BY <1>2
<1> HIDE DEF s
<1>4. Max({10, s}) \in Nat /\ 10 <= Max({10, s})
  BY <1>3, MaxIs
<1>5. Min({100, Max({10, s})}) \in Nat /\ 10 <= Min({100, Max({10, s})})
  BY <1>4, MinIs
<1> QED
  BY <1>5 DEF Scale, s, wanted, w

LEMMA AtRises ==
  ASSUME NEW weight \in Nat \cup {Null}, NEW max \in Nat, NEW a \in Nat, NEW b \in Nat, a <= b
  PROVE  At(a, weight, max) \in Nat /\ At(b, weight, max) \in Nat /\ At(a, weight, max) <= At(b, weight, max)
<1> DEFINE s == Scale(weight, max)
           x == (100 * a) \div s
           y == (100 * b) \div s
<1>1. s \in Nat /\ 10 <= s
  BY ScaleIs
<1> HIDE DEF s
<1>2. 100 * a \in Nat /\ 100 * b \in Nat /\ 100 * a <= 100 * b
  OBVIOUS
<1>3. x \in Nat /\ y \in Nat /\ x <= y
  BY <1>1, <1>2, DivRises
<1> HIDE DEF x, y
<1>4. Min({100, x}) \in Nat /\ Min({100, y}) \in Nat /\ Min({100, x}) <= Min({100, y})
  BY <1>3, MinIs
<1> QED
  BY <1>4 DEF At, x, y, s

LEMMA BarIsRight ==
  ASSUME NEW weight \in Nat \cup {Null}, NEW min \in Nat, NEW max \in Nat, NEW bar,
         bar = AllocationBar(weight, min, max)
  PROVE  /\ bar.state = "above" => bar.fill >= bar.to
         /\ bar.state = "below" => bar.fill <= bar.from
         /\ bar.state = "inside" => bar.fill \in bar.from..bar.to
<1>1. /\ bar.state = bandState(weight, min, max)
      /\ bar.fill = IF weight = Null THEN 0 ELSE At(weight, weight, max)
      /\ bar.from = At(min, weight, max) /\ bar.to = At(max, weight, max)
  BY DEF AllocationBar
<1>2. CASE weight = Null
  BY <1>1, <1>2 DEF bandState, Null
<1>3. CASE weight \in Nat
  <2>1. weight # Null /\ bar.fill = At(weight, weight, max)
    BY <1>1, <1>3 DEF Null
  <2>2. /\ bar.state = "above" => weight > max
        /\ bar.state = "below" => weight < min
        /\ bar.state = "inside" => weight <= max /\ weight >= min
    BY <1>1, <1>3, <2>1 DEF bandState
  <2>3. /\ At(weight, weight, max) \in Nat /\ At(min, weight, max) \in Nat /\ At(max, weight, max) \in Nat
        /\ max <= weight => At(max, weight, max) <= At(weight, weight, max)
        /\ weight <= max => At(weight, weight, max) <= At(max, weight, max)
        /\ weight <= min => At(weight, weight, max) <= At(min, weight, max)
        /\ min <= weight => At(min, weight, max) <= At(weight, weight, max)
    <3>1. \A a, b \in Nat : a <= b => /\ At(a, weight, max) \in Nat /\ At(b, weight, max) \in Nat
                                     /\ At(a, weight, max) <= At(b, weight, max)
      BY AtRises
    <3> QED
      BY <1>3, <3>1
  <2> QED
    BY <1>1, <1>3, <2>1, <2>2, <2>3
<1> QED
  BY <1>2, <1>3

LEMMA WeightIs ==
  ASSUME ViewsTypeOK
  PROVE  Weight \in Nat \cup {Null}
<1>1. Has("allocation") => Facts("allocation").weight \in Nat \cup {Absent}
  BY LoadsAreEndpoints, FactsAreFacts, FactIs
<1> QED
  BY <1>1 DEF Weight, num, Absent, Null

LEMMA BarsAreRight ==
  ASSUME ViewsTypeOK, Settled, view = "overview"
  PROVE  BarsAgree
<1>1. ~Awaited("networth") /\ ~Awaited("allocation")
  BY SettledLoads DEF InUse, Loaded
<1>2. Overview.bars \subseteq {AllocationBar(Weight, Bands.min, Bands.max)}
  BY <1>1 DEF Overview
<1>3. Weight \in Nat \cup {Null} /\ Bands.min \in Nat /\ Bands.max \in Nat
  BY WeightIs, ViewsAssumption
<1>4. \A bar : bar = AllocationBar(Weight, Bands.min, Bands.max) =>
        /\ bar.state = "above" => bar.fill >= bar.to
        /\ bar.state = "below" => bar.fill <= bar.from
        /\ bar.state = "inside" => bar.fill \in bar.from..bar.to
  BY <1>3, BarIsRight
<1> QED
  BY <1>2, <1>4 DEF BarsAgree

LEMMA HomeIsExact ==
  ASSUME ViewsTypeOK, Settled, view = "home"
  PROVE  NeedsYouIsExact /\ LatestBriefing = IF office[version].rich THEN "briefing" ELSE "no briefing"
<1> DEFINE f == office[version]
<1>1. f \in Fact
  BY SettledLoads
<1>2. \A e \in {"networth", "allocation", "decisions", "reports", "review"} :
        Has(e) /\ Facts(e) = f /\ ~Awaited(e) /\ e \notin failed
  BY SettledLoads DEF InUse, Loaded, Shared
<1> HIDE DEF f
<1>3. f.weight \in Nat \cup {Absent} /\ f.rich \in BOOLEAN /\ f.stale \in BOOLEAN /\ f.decision \in Verdicts
  BY <1>1, FactIs
<1>4. OutsideBand <=> f.weight # Absent /\ (f.weight < Bands.min \/ f.weight > Bands.max)
  <2>1. Weight = num(f.weight) /\ Bands.min \in Nat /\ Bands.max \in Nat
    BY <1>2, ViewsAssumption DEF Weight
  <2>2. CASE f.weight = Absent
    <3>1. Weight = Null
      BY <2>1, <2>2 DEF num, Absent
    <3> QED
      BY <2>2, <3>1 DEF OutsideBand, bandState
  <2>3. CASE f.weight # Absent
    <3>1. f.weight \in Nat /\ Weight = f.weight /\ Weight # Null
      BY <1>3, <2>1, <2>3 DEF num, Null
    <3>2. bandState(Weight, Bands.min, Bands.max) \in {"above", "below"} <=> Weight < Bands.min \/ Weight > Bands.max
      BY <2>1, <3>1 DEF bandState
    <3> QED
      BY <1>2, <2>3, <3>1, <3>2 DEF OutsideBand
  <2> QED
    BY <2>2, <2>3
<1>5. Stale <=> f.stale
  BY <1>2 DEF Stale
<1>6. needsVerdict <=> f.decision \in {"breached", "due"}
  BY <1>2 DEF needsVerdict
<1> DEFINE flagged == {f.decision} \cap {"breached", "due", "judge"}
           outside == IF OutsideBand THEN {"outside"} ELSE {}
           stale == IF Stale THEN {"stale"} ELSE {}
<1>7. flagged = (IF needsVerdict THEN {IF f.decision = "breached" THEN "breached" ELSE "due"} ELSE {})
                \cup (IF f.decision = "judge" THEN {"judge"} ELSE {})
  <2>1. CASE f.decision = "breached"
    BY <1>6, <2>1
  <2>2. CASE f.decision = "due"
    BY <1>6, <2>2
  <2>3. CASE f.decision = "judge"
    BY <1>6, <2>3
  <2>4. CASE f.decision \notin {"breached", "due", "judge"}
    BY <1>6, <2>4
  <2> QED
    BY <2>1, <2>2, <2>3, <2>4
<1>8. Attention = flagged \cup outside \cup stale
  BY <1>2, <1>7 DEF Attention
<1>9. Problems(f) = flagged \cup outside \cup stale
  BY <1>4, <1>5 DEF Problems
<1>10. NeedsYou = IF Attention # {} THEN Attention ELSE {"nothing needs you"}
  BY <1>2 DEF NeedsYou
<1>11. LatestBriefing = IF f.rich THEN "briefing" ELSE "no briefing"
  BY <1>2 DEF LatestBriefing
<1> HIDE DEF flagged, outside, stale
<1> QED
  BY <1>8, <1>9, <1>10, <1>11 DEF NeedsYouIsExact, f

LEMMA ProfileIsExact ==
  ASSUME ViewsTypeOK, Settled, view = "profile"
  PROVE  LevelCards = "shown" /\ (FilePanel("ips") = "tables" <=> office[version].rich)
<1>1. \A e \in {"levels", "files", "profile"} : Facts(e) = office[version] /\ ~Awaited(e) /\ e \notin failed
  BY SettledLoads DEF InUse, Loaded
<1>2. LevelCards = "shown" /\ FilePanel("ips") = Structured("ips", office[version].rich)
  BY <1>1 DEF LevelCards, FilePanel, ProfileTabs, Panel
<1>3. office[version].rich \in BOOLEAN
  BY SettledLoads, FactIs
<1> QED
  BY <1>2, <1>3 DEF Structured

LEMMA ReaderIsExact ==
  ASSUME ViewsTypeOK, Settled, view = "reader"
  PROVE  ReportReader = "shown"
BY SettledLoads DEF InUse, Loaded, ReportReader, Panel

\* Once every load of a page has answered since the office last changed, the page shows
\* exactly what is so: what needs somebody (home.tsx), every report once and newest first under
\* its month (reports.tsx), and each bar on its side of the band (allocation-bar.tsx), for all
\* reports, weights and bands.
THEOREM ViewsAreExact == ViewsSpec => []PagesAreExact
<1>1. ViewsSpec => []ViewsTypeOK
  BY ViewsInitTypes, ViewsStepTypes, PTL DEF ViewsSpec
<1>2. ViewsTypeOK => PagesAreExact
  BY HomeIsExact, ReportsAreWhole, BarsAreRight, ProfileIsExact, ReaderIsExact DEF PagesAreExact
<1> QED
  BY <1>1, <1>2, PTL

---------------------------------------------------------------------------
(* Look.  RobotsFollow is inductive: whatever is written or refused, the    *)
(* tab that wrote looks again, and a write that changes the text owes every *)
(* other tab a storage event.                                               *)

LookTypes == seen = [t \in Windows |-> seen[t]] /\ owed = [t \in Windows |-> owed[t]]

LookInv == LookTypes /\ RobotsFollow

LEMMA LookInitInv == LookInit => LookInv
  BY DEF LookInit, LookInv, LookTypes, RobotsFollow

\* A write of any text, taken or refused, by a tab that then looks again.
LEMMA PutFollows ==
  ASSUME LookInv, NEW t \in Windows, NEW text, Put(t, text), notify(t)
  PROVE  LookInv'
<1> USE DEF LookInv
<1> HIDE DEF parseAppearance
<1>1. /\ seen' = [seen EXCEPT ![t] = parseAppearance(raw')]
      /\ seen'[t] = parseAppearance(raw')
      /\ \A u \in Windows \ {t} : seen'[u] = seen[u]
  BY DEF notify, LookTypes
<1>2. CASE /\ raw' = text
           /\ owed' = [u \in Windows |-> owed[u] \/ (u # t /\ text # raw)]
  <2>1. \A u \in Windows : owed'[u] = (owed[u] \/ (u # t /\ text # raw))
    BY <1>2
  <2>2. ASSUME NEW u \in Windows, u # t, ~owed'[u] PROVE seen'[u] = parseAppearance(raw')
    <3>1. text = raw /\ ~owed[u]
      BY <2>1, <2>2
    <3> QED
      BY <1>1, <1>2, <2>2, <3>1 DEF RobotsFollow
  <2>3. RobotsFollow'
    BY <1>1, <2>2 DEF RobotsFollow
  <2>4. LookTypes'
    BY <1>1, <1>2 DEF LookTypes
  <2> QED
    BY <2>3, <2>4
<1>3. CASE UNCHANGED <<raw, owed>>
  BY <1>1, <1>3 DEF RobotsFollow, LookTypes
<1> QED
  BY <1>2, <1>3 DEF Put

LEMMA LookStepInv == LookInv /\ [LookNext]_kvars => LookInv'
<1> SUFFICES ASSUME LookInv, [LookNext]_kvars PROVE LookInv'
  OBVIOUS
<1>1. ASSUME NEW t \in Windows, StorageEvent(t) PROVE LookInv'
  <2>1. /\ seen' = [seen EXCEPT ![t] = parseAppearance(raw)]
        /\ owed' = [owed EXCEPT ![t] = FALSE] /\ raw' = raw
    BY <1>1 DEF StorageEvent, notify
  <2> QED
    BY <2>1 DEF LookInv, LookTypes, RobotsFollow
<1>2. ASSUME NEW t \in Windows, NEW row \in Rows, PickCustom(t, row) PROVE LookInv'
  BY <1>2 DEF PickCustom, LookInv, LookTypes, RobotsFollow
<1>3. ASSUME NEW t \in Windows, OpenSheet(t) PROVE LookInv'
  BY <1>3 DEF OpenSheet, LookInv, LookTypes, RobotsFollow
<1>4. ASSUME NEW t \in Windows, Reset(t) PROVE LookInv'
  BY <1>4, PutFollows DEF Reset, resetAppearance
<1>5. ASSUME NEW t \in Windows, NEW look, update(t, look) PROVE LookInv'
  BY <1>5, PutFollows DEF update, saveAppearance
<1>6. ASSUME NEW t \in Windows,
             \/ \E shell \in Shells : PickSwatch(t, shell)
             \/ \E screen \in Screens : PickScreen(t, screen)
             \/ \E speed \in 0..MaxSpeed : PickSpeed(t, speed)
      PROVE  LookInv'
  <2>1. ASSUME NEW shell \in Shells, PickSwatch(t, shell) PROVE LookInv'
    <3>1. update(t, [seen[t] EXCEPT !.shell = shell])
      BY <2>1, ZenonT(30) DEF PickSwatch
    <3> QED
      BY <3>1, <1>5
  <2>2. ASSUME NEW screen \in Screens, PickScreen(t, screen) PROVE LookInv'
    <3>1. update(t, [seen[t] EXCEPT !.screen = screen])
      BY <2>2, ZenonT(30) DEF PickScreen
    <3> QED
      BY <3>1, <1>5
  <2>3. ASSUME NEW speed \in 0..MaxSpeed, PickSpeed(t, speed) PROVE LookInv'
    BY <2>3, <1>5 DEF PickSpeed
  <2> QED
    BY <1>6, <2>1, <2>2, <2>3
<1>7. ASSUME NEW t \in Windows, NEW keep \in BOOLEAN, CloseSheet(t, keep) PROVE LookInv'
  <2>1. CASE keep
    BY <1>7, <2>1 DEF CloseSheet, LookInv, LookTypes, RobotsFollow
  <2>2. CASE ~keep
    BY <1>7, <2>2, PutFollows DEF CloseSheet, restore, resetAppearance, saveAppearance
  <2> QED
    BY <2>1, <2>2
<1>8. CASE UNCHANGED kvars
  BY <1>8 DEF kvars, LookInv, LookTypes, RobotsFollow
<1> QED
  BY <1>1, <1>2, <1>3, <1>4, <1>6, <1>7, <1>8 DEF LookNext

\* A tab that has been told everything shows the look that is stored (store.ts:43-89).
THEOREM LookFollows == LookSpec => []RobotsFollow
<1>1. LookInv => RobotsFollow
  BY DEF LookInv
<1> QED
  BY <1>1, LookInitInv, LookStepInv, PTL DEF LookSpec

\* What is looked at, edited and stored is a look.
TextsStored == Found \cup {serializeAppearance(look) : look \in Looks}
LookShapes ==
  /\ raw \in TextsStored
  /\ seen \in [Windows -> Looks] /\ owed \in [Windows -> BOOLEAN] /\ custom \in [Windows -> SUBSET Rows]
  /\ sheet \in [Windows -> [open : BOOLEAN, with : Looks]]

LEMMA ParsedIsLook == \A text \in TextsStored : parseAppearance(text) \in Looks
<1> SUFFICES ASSUME NEW text \in TextsStored PROVE parseAppearance(text) \in Looks
  OBVIOUS
<1>1. defaultAppearance \in Looks
  BY DEF defaultAppearance, Looks, Shells, Screens, MaxSpeed
<1>2. text.speed \in Int
  <2>1. CASE text \in Found
    <3>1. NotANumber \in Int
      BY DEF NotANumber
    <3>2. \/ text = NoText \/ text = Unreadable \/ text = Text("config", 2, "blue", "mint", 0)
          \/ text = Text("config", 1, "#12", "mint", 7) \/ text = Text("config", 1, "blue", "odd", NotANumber)
      BY <2>1, Zenon DEF Found
    <3>3. NoText.speed = 0 /\ Unreadable.speed = 0
      BY DEF NoText, Unreadable, Text
    <3>4. Text("config", 2, "blue", "mint", 0).speed = 0
      BY DEF Text
    <3>5. Text("config", 1, "#12", "mint", 7).speed = 7
      BY DEF Text
    <3>6. Text("config", 1, "blue", "odd", NotANumber).speed = NotANumber
      BY DEF Text
    <3>7. text.speed = 0 \/ text.speed = 7 \/ text.speed = NotANumber
      BY <3>2, <3>3, <3>4, <3>5, <3>6, Zenon
    <3> QED
      BY <3>1, <3>7
  <2>2. ASSUME NEW look \in Looks, text = serializeAppearance(look) PROVE text.speed \in Int
    <3>1. text.speed = look.speed /\ look.speed \in 0..MaxSpeed
      BY <2>2 DEF serializeAppearance, Text, Looks
    <3> QED
      BY <3>1 DEF MaxSpeed
  <2> QED
    BY <2>1, <2>2 DEF TextsStored
<1>3. clamp(text.speed) \in 0..MaxSpeed
  BY <1>2 DEF clamp, defaultAppearance, MaxSpeed, NotANumber
<1>4. oneOf(text.shell, Shells, defaultAppearance.shell) \in Shells
  BY DEF oneOf, Shells, defaultAppearance
<1>5. oneOf(text.screen, Screens, defaultAppearance.screen) \in Screens
  BY DEF oneOf, Screens, defaultAppearance
<1> QED
  BY <1>1, <1>3, <1>4, <1>5 DEF parseAppearance, Looks

\* The arrow keys stay in the row.
LEMMA KeysStay ==
  ASSUME NEW pressed \in Keyed, NEW count \in 1..3, NEW index \in 0..(count - 1)
  PROVE  radioKeyDown(pressed, index, count) \in 0..(count - 1)
<1>1. (index + 1) % count \in 0..(count - 1)
  OBVIOUS
<1>2. (index - 1 + count) % count \in 0..(count - 1)
  OBVIOUS
<1> QED
  BY <1>1, <1>2 DEF radioKeyDown, Keyed

LEMMA LookInitShapes == LookInit => LookShapes
<1> SUFFICES ASSUME LookInit PROVE LookShapes
  OBVIOUS
<1>1. raw \in TextsStored
  BY DEF LookInit, TextsStored
<1>2. Closed \in [open : BOOLEAN, with : Looks]
  BY DEF Closed, defaultAppearance, Looks, Shells, Screens, MaxSpeed
<1> QED
  BY <1>1, <1>2, ParsedIsLook DEF LookInit, LookShapes

LEMMA PutShapes ==
  ASSUME LookShapes, NEW t \in Windows, NEW text \in TextsStored, Put(t, text), notify(t)
  PROVE  raw' \in TextsStored /\ seen' \in [Windows -> Looks] /\ owed' \in [Windows -> BOOLEAN]
<1>1. raw' \in TextsStored /\ owed' \in [Windows -> BOOLEAN]
  BY DEF Put, LookShapes
<1> QED
  BY <1>1, ParsedIsLook DEF notify, LookShapes

LEMMA LookStepShapes == LookShapes /\ [LookNext]_kvars => LookShapes'
<1> SUFFICES ASSUME LookShapes, [LookNext]_kvars PROVE LookShapes'
  OBVIOUS
<1>0. NoText \in TextsStored /\ (\A look \in Looks : serializeAppearance(look) \in TextsStored)
  BY DEF TextsStored, Found
<1>1. ASSUME NEW t \in Windows, StorageEvent(t) PROVE LookShapes'
  BY <1>1, ParsedIsLook DEF StorageEvent, notify, LookShapes
<1>2. ASSUME NEW t \in Windows, NEW row \in Rows, PickCustom(t, row) PROVE LookShapes'
  BY <1>2 DEF PickCustom, LookShapes
<1>3. ASSUME NEW t \in Windows, OpenSheet(t) PROVE LookShapes'
  <2>1. parseAppearance(raw) \in Looks
    BY ParsedIsLook DEF LookShapes
  <2>2. [open |-> TRUE, with |-> parseAppearance(raw)] \in [open : BOOLEAN, with : Looks]
    BY <2>1
  <2> QED
    BY <1>3, <2>2 DEF OpenSheet, LookShapes
<1>4. ASSUME NEW t \in Windows, Reset(t) PROVE LookShapes'
  BY <1>4, <1>0, PutShapes DEF Reset, resetAppearance, LookShapes
<1>5. ASSUME NEW t \in Windows, NEW look \in Looks, update(t, look),
             custom' \in [Windows -> SUBSET Rows]
      PROVE LookShapes'
  BY <1>5, <1>0, PutShapes DEF update, saveAppearance, LookShapes
<1>6. ASSUME NEW t \in Windows, NEW shell \in Shells, PickSwatch(t, shell) PROVE LookShapes'
  <2>1. [seen[t] EXCEPT !.shell = shell] \in Looks
    BY DEF LookShapes, Looks
  <2>2. update(t, [seen[t] EXCEPT !.shell = shell])
    BY <1>6, ZenonT(30) DEF PickSwatch
  <2>3. custom' = [custom EXCEPT ![t] = IF shell \in Swatches THEN @ \ {"shell"} ELSE @]
    BY <1>6, ZenonT(30) DEF PickSwatch
  <2>4. custom' \in [Windows -> SUBSET Rows]
    BY <2>3 DEF LookShapes
  <2> QED
    BY <2>1, <2>2, <2>4, <1>5
<1>7. ASSUME NEW t \in Windows, NEW screen \in Screens, PickScreen(t, screen) PROVE LookShapes'
  <2>1. [seen[t] EXCEPT !.screen = screen] \in Looks
    BY DEF LookShapes, Looks
  <2>2. update(t, [seen[t] EXCEPT !.screen = screen])
    BY <1>7, ZenonT(30) DEF PickScreen
  <2>3. custom' = [custom EXCEPT ![t] = IF screen \in Presets THEN @ \ {"screen"} ELSE @]
    BY <1>7, ZenonT(30) DEF PickScreen
  <2>4. custom' \in [Windows -> SUBSET Rows]
    BY <2>3 DEF LookShapes
  <2> QED
    BY <2>1, <2>2, <2>4, <1>5
<1>8. ASSUME NEW t \in Windows, NEW speed \in 0..MaxSpeed, PickSpeed(t, speed) PROVE LookShapes'
  <2>1. [seen[t] EXCEPT !.speed = speed] \in Looks
    BY DEF LookShapes, Looks
  <2> QED
    BY <1>8, <2>1, <1>5 DEF PickSpeed, LookShapes
<1>9. ASSUME NEW t \in Windows, NEW keep \in BOOLEAN, CloseSheet(t, keep) PROVE LookShapes'
  <2>1. sheet' \in [Windows -> [open : BOOLEAN, with : Looks]] /\ sheet[t].with \in Looks
    BY <1>9 DEF CloseSheet, LookShapes, Closed, defaultAppearance, Looks, Shells, Screens, MaxSpeed
  <2>2. CASE keep
    BY <1>9, <2>1, <2>2 DEF CloseSheet, LookShapes
  <2>3. CASE ~keep
    <3>1. restore(t, sheet[t].with) /\ custom' = custom
      BY <1>9, <2>3 DEF CloseSheet
    <3>2. \E text \in TextsStored : Put(t, text) /\ notify(t)
      BY <3>1, <2>1, <1>0 DEF restore, resetAppearance, saveAppearance
    <3> QED
      BY <3>1, <3>2, <2>1, PutShapes DEF LookShapes
  <2> QED
    BY <2>2, <2>3
<1>10. CASE UNCHANGED kvars
  BY <1>10 DEF kvars, LookShapes
<1> QED
  BY <1>1, <1>2, <1>3, <1>4, <1>6, <1>7, <1>8, <1>9, <1>10 DEF LookNext

LEMMA LookShapesType == LookShapes => LookTypeOK
  BY KeysStay DEF LookShapes, LookTypeOK, TextsStored

\* What the tabs show, the sheets keep and the storage has are looks, also when what was found
\* in the storage was none, and the keys stay in their row (appearance.ts:190-218,
\* swatch-row.tsx:23-32).
THEOREM LookHasTypes == LookSpec => []LookTypeOK
  BY LookInitShapes, LookStepShapes, LookShapesType, PTL DEF LookSpec

---------------------------------------------------------------------------
(* Markdown.  The page is a recursive function, and no rule of the provers  *)
(* unfolds one whose argument does not simply shrink: a list is left with   *)
(* the same lines that it began with, a quote is read again from its first. *)
(* So it is shown first that a function given by what it is of smaller      *)
(* arguments exists (FixedPoint), then that each step of the reader goes to *)
(* something smaller (Steps), and then, by a least text that would lose a   *)
(* line, that there is none.                                                *)

Elements == {"item", "code", "heading", "table", "paragraph"}
ShownLines == [place : Nat, element : Elements]
Page == Seq(ShownLines)

\* What the page is, from what it is further on.
NextBlock(F, mark, lines) ==
    CASE lines = <<>> -> <<>>
      [] lines # <<>> /\ mark # NoMark -> list(F, mark, lines)
      [] OTHER -> parse(F, lines)

\* The lines before a place and those after it.
LEMMA Cuts ==
  ASSUME NEW lines \in Texts, NEW n \in 0..Len(lines)
  PROVE  /\ First(lines, n) \in Texts /\ Len(First(lines, n)) = n /\ DOMAIN First(lines, n) = 1..n
         /\ \A i \in 1..n : First(lines, n)[i] = lines[i]
         /\ Beyond(lines, n) \in Texts /\ Len(Beyond(lines, n)) = Len(lines) - n
         /\ DOMAIN Beyond(lines, n) = 1..(Len(lines) - n)
         /\ \A i \in 1..(Len(lines) - n) : Beyond(lines, n)[i] = lines[n + i]
BY DEF First, Beyond, Texts

LEMMA LeastIs ==
  ASSUME NEW S \in SUBSET Nat, S # {}
  PROVE  Min(S) \in S /\ \A n \in S : Min(S) <= n
BY LeastNatural DEF Min

LEMMA UntilIs ==
  ASSUME NEW lines \in Texts, NEW some \in SUBSET (1..Len(lines))
  PROVE  /\ Until(lines, some) \in 0..Len(lines)
         /\ \A i \in 1..Until(lines, some) : i \notin some
         /\ Until(lines, some) < Len(lines) => Until(lines, some) + 1 \in some
         /\ \A k \in 0..Len(lines) : (\A i \in some : k < i) => k <= Until(lines, some)
<1>0. Len(lines) \in Nat
  BY DEF Texts
<1>1. CASE some = {}
  BY <1>0, <1>1 DEF Until
<1>2. CASE some # {}
  <2>1. some \in SUBSET Nat
    BY <1>0
  <2>2. Min(some) \in some /\ \A n \in some : Min(some) <= n
    BY <1>2, <2>1, LeastIs
  <2> DEFINE m == Min(some)
             b == Until(lines, some)
  <2>3. b = m - 1
    BY <1>2 DEF Until
  <2>4. m \in 1..Len(lines) /\ m \in some /\ \A n \in some : m <= n
    BY <2>2
  <2> HIDE DEF m, b
  <2>5. b \in 0..Len(lines) /\ b + 1 = m
    BY <1>0, <2>3, <2>4
  <2>6. \A i \in 1..b : i \notin some
    BY <1>0, <2>1, <2>3, <2>4
  <2>7. \A k \in 0..Len(lines) : (\A i \in some : k < i) => k <= b
    BY <1>0, <2>3, <2>4
  <2> QED
    BY <2>4, <2>5, <2>6, <2>7 DEF b
<1> QED
  BY <1>1, <1>2

LEMMA ShownIs ==
  ASSUME NEW lines \in Texts, NEW element \in Elements
  PROVE  /\ ShownAs(element, lines) \in Page /\ Len(ShownAs(element, lines)) = Len(lines)
         /\ \A i \in 1..Len(lines) : ShownAs(element, lines)[i].place = lines[i].place
<1>1. Len(lines) \in Nat /\ DOMAIN lines = 1..Len(lines) /\ \A i \in 1..Len(lines) : lines[i] \in Lines
  BY DEF Texts
<1>2. \A i \in 1..Len(lines) : lines[i].place \in Nat
  BY <1>1 DEF Lines
<1>3. \A i \in 1..Len(lines) : [place |-> lines[i].place, element |-> element] \in ShownLines
  BY <1>2 DEF ShownLines
<1>4. ShownAs(element, lines) = [i \in 1..Len(lines) |-> [place |-> lines[i].place, element |-> element]]
  BY <1>1 DEF ShownAs
<1>5. ShownAs(element, lines) \in Page /\ Len(ShownAs(element, lines)) = Len(lines)
  BY <1>1, <1>3, <1>4 DEF Page
<1> QED
  BY <1>4, <1>5

PlacesOf(s) == {s[i].place : i \in DOMAIN s}
Rises(s) == \A i, j \in DOMAIN s : i < j => s[i].place < s[j].place

\* A page tells a text: it has the text's places in order, and those that are worded.
Tells(said, lines) ==
  /\ Rises(said)
  /\ PlacesOf(said) \subseteq PlacesOf(lines)
  /\ \A i \in DOMAIN lines : lines[i].kind \in Worded => lines[i].place \in PlacesOf(said)

LEMMA TextIs ==
  ASSUME NEW lines \in Texts
  PROVE  /\ Len(lines) \in Nat /\ DOMAIN lines = 1..Len(lines)
         /\ \A i \in 1..Len(lines) : /\ lines[i] \in Lines /\ lines[i].place \in Nat /\ lines[i].indent \in Nat
                                     /\ lines[i].kind \in Kinds /\ lines[i].within \in {"text", "item"}
<1>1. Len(lines) \in Nat /\ DOMAIN lines = 1..Len(lines) /\ \A i \in 1..Len(lines) : lines[i] \in Lines
  BY DEF Texts
<1> QED
  BY <1>1 DEF Lines

LEMMA PageIs ==
  ASSUME NEW said \in Page
  PROVE  /\ Len(said) \in Nat /\ DOMAIN said = 1..Len(said)
         /\ \A i \in 1..Len(said) : said[i].place \in Nat
<1>1. Len(said) \in Nat /\ DOMAIN said = 1..Len(said)
      /\ \A i \in 1..Len(said) : said[i] \in ShownLines
  BY DEF Page
<1> QED
  BY <1>1 DEF ShownLines

\* Two parts of a text that rises rise.
LEMMA PartsRise ==
  ASSUME NEW lines \in Texts, Rises(lines), NEW n \in 0..Len(lines)
  PROVE  Rises(First(lines, n)) /\ Rises(Beyond(lines, n))
<1>1. Len(lines) \in Nat /\ DOMAIN lines = 1..Len(lines)
  BY TextIs
<1>2. /\ DOMAIN First(lines, n) = 1..n /\ \A i \in 1..n : First(lines, n)[i] = lines[i]
      /\ DOMAIN Beyond(lines, n) = 1..(Len(lines) - n)
      /\ \A i \in 1..(Len(lines) - n) : Beyond(lines, n)[i] = lines[n + i]
  BY Cuts
<1>3. Rises(First(lines, n))
  BY <1>1, <1>2 DEF Rises
<1>4. ASSUME NEW i \in 1..(Len(lines) - n), NEW j \in 1..(Len(lines) - n), i < j
      PROVE  Beyond(lines, n)[i].place < Beyond(lines, n)[j].place
  <2>1. n + i \in 1..Len(lines) /\ n + j \in 1..Len(lines) /\ n + i < n + j
    BY <1>1, <1>4
  <2> QED
    BY <1>1, <1>2, <2>1 DEF Rises
<1> QED
  BY <1>2, <1>3, <1>4 DEF Rises

\* What tells the one part and then the other tells the whole.
LEMMA Joins ==
  ASSUME NEW lines \in Texts, Rises(lines), NEW n \in 0..Len(lines), NEW a \in Page, NEW b \in Page,
         Tells(a, First(lines, n)), Tells(b, Beyond(lines, n))
  PROVE  a \o b \in Page /\ Tells(a \o b, lines)
<1>0. Len(lines) \in Nat /\ DOMAIN lines = 1..Len(lines)
  BY TextIs
<1>1. /\ DOMAIN First(lines, n) = 1..n /\ \A i \in 1..n : First(lines, n)[i] = lines[i]
      /\ DOMAIN Beyond(lines, n) = 1..(Len(lines) - n)
      /\ \A i \in 1..(Len(lines) - n) : Beyond(lines, n)[i] = lines[n + i]
  BY Cuts
<1>2. /\ Len(a) \in Nat /\ DOMAIN a = 1..Len(a) /\ \A i \in 1..Len(a) : a[i].place \in Nat
      /\ Len(b) \in Nat /\ DOMAIN b = 1..Len(b) /\ \A i \in 1..Len(b) : b[i].place \in Nat
  BY PageIs
<1>3. /\ a \o b \in Page /\ DOMAIN (a \o b) = 1..(Len(a) + Len(b))
      /\ \A i \in 1..Len(a) : (a \o b)[i] = a[i]
      /\ \A i \in 1..Len(b) : (a \o b)[Len(a) + i] = b[i]
  BY <1>2 DEF Page
<1> DEFINE c == a \o b
<1> HIDE DEF c
<1>4. \A i \in 1..Len(a) : \E k \in 1..n : a[i].place = lines[k].place
  <2> SUFFICES ASSUME NEW i \in 1..Len(a) PROVE \E k \in 1..n : a[i].place = lines[k].place
    OBVIOUS
  <2>1. a[i].place \in PlacesOf(First(lines, n))
    BY <1>2 DEF Tells, PlacesOf
  <2> QED
    BY <1>1, <2>1 DEF PlacesOf
<1>5. \A i \in 1..Len(b) : \E k \in 1..(Len(lines) - n) : b[i].place = lines[n + k].place
  <2> SUFFICES ASSUME NEW i \in 1..Len(b) PROVE \E k \in 1..(Len(lines) - n) : b[i].place = lines[n + k].place
    OBVIOUS
  <2>1. b[i].place \in PlacesOf(Beyond(lines, n))
    BY <1>2 DEF Tells, PlacesOf
  <2> QED
    BY <1>1, <2>1 DEF PlacesOf
<1>6. PlacesOf(c) = PlacesOf(a) \cup PlacesOf(b)
  <2>1. ASSUME NEW p \in PlacesOf(c) PROVE p \in PlacesOf(a) \cup PlacesOf(b)
    <3>1. PICK i \in 1..(Len(a) + Len(b)) : p = c[i].place
      BY <1>3, <2>1 DEF PlacesOf, c
    <3>2. CASE i <= Len(a)
      BY <1>2, <1>3, <3>1, <3>2 DEF PlacesOf, c
    <3>3. CASE i > Len(a)
      <4>1. i - Len(a) \in 1..Len(b) /\ Len(a) + (i - Len(a)) = i
        BY <1>2, <3>3
      <4>2. c[i] = b[i - Len(a)]
        BY <1>3, <4>1 DEF c
      <4> QED
        BY <1>2, <3>1, <4>1, <4>2 DEF PlacesOf
    <3> QED
      BY <1>2, <3>2, <3>3
  <2>2. PlacesOf(a) \subseteq PlacesOf(c)
    <3>1. \A i \in 1..Len(a) : i \in 1..(Len(a) + Len(b)) /\ c[i] = a[i]
      BY <1>2, <1>3 DEF c
    <3> QED
      BY <1>2, <1>3, <3>1 DEF PlacesOf, c
  <2>3. PlacesOf(b) \subseteq PlacesOf(c)
    <3>1. \A i \in 1..Len(b) : Len(a) + i \in DOMAIN c /\ c[Len(a) + i] = b[i]
      BY <1>2, <1>3 DEF c
    <3>2. \A p \in PlacesOf(b) : \E i \in 1..Len(b) : p = b[i].place
      BY <1>2 DEF PlacesOf
    <3> QED
      BY <3>1, <3>2 DEF PlacesOf
  <2> QED
    BY <2>1, <2>2, <2>3
<1>7. Rises(c)
  <2> SUFFICES ASSUME NEW i \in 1..(Len(a) + Len(b)), NEW j \in 1..(Len(a) + Len(b)), i < j
               PROVE  c[i].place < c[j].place
    BY <1>3 DEF Rises, c
  <2>1. CASE j <= Len(a)
    <3>1. i \in 1..Len(a) /\ j \in 1..Len(a)
      BY <1>2, <2>1
    <3>2. c[i] = a[i] /\ c[j] = a[j]
      BY <1>3, <3>1 DEF c
    <3> QED
      BY <1>2, <3>1, <3>2 DEF Tells, Rises
  <2>2. CASE i > Len(a)
    <3> DEFINE u == i - Len(a)
               v == j - Len(a)
    <3>1. u \in 1..Len(b) /\ v \in 1..Len(b) /\ u < v /\ Len(a) + u = i /\ Len(a) + v = j
      <4>1. i \in Nat /\ j \in Nat /\ i <= Len(a) + Len(b) /\ j <= Len(a) + Len(b)
        BY <1>2
      <4> QED
        BY <1>2, <2>2, <4>1
    <3> HIDE DEF u, v
    <3>2. c[i] = b[u] /\ c[j] = b[v]
      BY <1>3, <3>1 DEF c
    <3> QED
      BY <1>2, <3>1, <3>2 DEF Tells, Rises
  <2>3. CASE i <= Len(a) /\ j > Len(a)
    <3> DEFINE v == j - Len(a)
    <3>1. i \in 1..Len(a) /\ v \in 1..Len(b) /\ Len(a) + v = j
      BY <1>2, <2>3
    <3> HIDE DEF v
    <3>2. c[i] = a[i] /\ c[j] = b[v]
      BY <1>3, <3>1 DEF c
    <3>3. PICK k \in 1..n : a[i].place = lines[k].place
      BY <1>4, <3>1
    <3>4. PICK m \in 1..(Len(lines) - n) : b[v].place = lines[n + m].place
      BY <1>5, <3>1
    <3>5. k \in 1..Len(lines) /\ n + m \in 1..Len(lines) /\ k < n + m
      BY <1>0
    <3>6. lines[k].place < lines[n + m].place
      BY <1>0, <3>5 DEF Rises
    <3> QED
      BY <3>2, <3>3, <3>4, <3>6
  <2> QED
    BY <1>2, <2>1, <2>2, <2>3
<1>8. PlacesOf(c) \subseteq PlacesOf(lines)
  <2>1. PlacesOf(a) \subseteq PlacesOf(lines)
    <3>1. \A k \in 1..n : k \in DOMAIN lines
      BY <1>0
    <3> QED
      BY <1>2, <1>4, <3>1 DEF PlacesOf
  <2>2. PlacesOf(b) \subseteq PlacesOf(lines)
    <3>1. \A k \in 1..(Len(lines) - n) : n + k \in DOMAIN lines
      BY <1>0
    <3> QED
      BY <1>2, <1>5, <3>1 DEF PlacesOf
  <2> QED
    BY <1>6, <2>1, <2>2
<1>9. ASSUME NEW i \in 1..Len(lines), lines[i].kind \in Worded PROVE lines[i].place \in PlacesOf(c)
  <2>1. CASE i <= n
    <3>1. i \in 1..n /\ First(lines, n)[i] = lines[i]
      BY <1>0, <1>1, <2>1
    <3> QED
      BY <1>1, <1>6, <1>9, <3>1 DEF Tells
  <2>2. CASE i > n
    <3> DEFINE k == i - n
    <3>1. k \in 1..(Len(lines) - n) /\ n + k = i
      BY <1>0, <2>2
    <3> HIDE DEF k
    <3>2. Beyond(lines, n)[k] = lines[i]
      BY <1>1, <3>1
    <3> QED
      BY <1>1, <1>6, <1>9, <3>1, <3>2 DEF Tells
  <2> QED
    BY <1>0, <2>1, <2>2
<1> QED
  BY <1>0, <1>3, <1>7, <1>8, <1>9 DEF Tells, c

\* Lines of a text tell it when they rise and have every worded line of it.
LEMMA ChosenTell ==
  ASSUME NEW piece \in Texts, NEW whole \in Texts, NEW element \in Elements, Rises(piece),
         PlacesOf(piece) \subseteq PlacesOf(whole),
         \A i \in 1..Len(whole) : whole[i].kind \in Worded => whole[i].place \in PlacesOf(piece)
  PROVE  Tells(ShownAs(element, piece), whole)
<1> DEFINE s == ShownAs(element, piece)
<1>1. /\ DOMAIN s = 1..Len(piece) /\ DOMAIN piece = 1..Len(piece) /\ DOMAIN whole = 1..Len(whole)
      /\ \A i \in 1..Len(piece) : s[i].place = piece[i].place
  BY ShownIs, PageIs, TextIs
<1> HIDE DEF s
<1>2. PlacesOf(s) = PlacesOf(piece)
  BY <1>1 DEF PlacesOf
<1>3. Rises(s)
  BY <1>1 DEF Rises
<1> QED
  BY <1>1, <1>2, <1>3 DEF Tells, s

\* Nothing tells lines without words.
LEMMA NothingTells ==
  ASSUME NEW lines \in Texts, \A i \in 1..Len(lines) : lines[i].kind \notin Worded
  PROVE  <<>> \in Page /\ Tells(<<>>, lines)
<1>1. <<>> \in Page /\ DOMAIN <<>> = {} /\ DOMAIN lines = 1..Len(lines)
  BY TextIs DEF Page
<1> QED
  BY <1>1 DEF Tells, Rises, PlacesOf

\* A text read instead of another has its lines and its words.
Retells(inner, lines) ==
  /\ Len(inner) = Len(lines)
  /\ \A i \in 1..Len(lines) : /\ inner[i].place = lines[i].place
                              /\ lines[i].kind \in Worded => inner[i].kind \in Worded

LEMMA RetoldTells ==
  ASSUME NEW inner \in Texts, NEW lines \in Texts, Retells(inner, lines), NEW said, Tells(said, inner)
  PROVE  Tells(said, lines)
<1>1. DOMAIN inner = 1..Len(lines) /\ DOMAIN lines = 1..Len(lines)
  BY TextIs DEF Retells
<1>2. PlacesOf(inner) = PlacesOf(lines)
  BY <1>1 DEF Retells, PlacesOf
<1>3. \A i \in DOMAIN lines : lines[i].kind \in Worded => lines[i].place \in PlacesOf(said)
  BY <1>1 DEF Retells, Tells
<1> QED
  BY <1>2, <1>3 DEF Tells

LEMMA RetoldRises ==
  ASSUME NEW inner \in Texts, NEW lines \in Texts, Retells(inner, lines), Rises(lines)
  PROVE  Rises(inner)
BY TextIs DEF Retells, Rises

---------------------------------------------------------------------------
(* How far the page has to go: a step ahead, a quote opened, or a list      *)
(* begun or ended.                                                          *)

HasQuote(lines) == \E i \in DOMAIN lines : lines[i].kind = "quote"
Rank(mark, lines) == IF mark = NoMark THEN 1 ELSE IF lines # <<>> /\ Mark(lines[1]) = mark THEN 0 ELSE 2
Size(mark, lines) == 6 * Len(lines) + (IF HasQuote(lines) THEN 3 ELSE 0) + Rank(mark, lines)

LEMMA SizeIs ==
  ASSUME NEW mark \in Marks, NEW lines \in Texts
  PROVE  Size(mark, lines) \in Nat
BY TextIs DEF Size, Rank

\* It is less after a line.
LEMMA AheadIsLess ==
  ASSUME NEW mark, NEW m, NEW lines \in Texts, NEW n \in 1..Len(lines)
  PROVE  Size(m, Beyond(lines, n)) < Size(mark, lines)
<1> DEFINE rest == Beyond(lines, n)
<1>1. /\ Len(lines) \in Nat /\ DOMAIN lines = 1..Len(lines)
      /\ Len(rest) = Len(lines) - n /\ DOMAIN rest = 1..(Len(lines) - n)
      /\ \A i \in 1..(Len(lines) - n) : rest[i] = lines[n + i]
  BY Cuts, TextIs
<1> HIDE DEF rest
<1>2. HasQuote(rest) => HasQuote(lines)
  <2>1. \A i \in 1..(Len(lines) - n) : n + i \in 1..Len(lines)
    BY <1>1
  <2> QED
    BY <1>1, <2>1 DEF HasQuote
<1>3. Rank(m, rest) \in 0..2 /\ Rank(mark, lines) \in 0..2
  BY DEF Rank
<1>4. Len(rest) \in Nat /\ Len(rest) + 1 <= Len(lines)
  BY <1>1
<1> QED
  BY <1>1, <1>2, <1>3, <1>4 DEF Size, rest

LEMMA WithinIsLess ==
  ASSUME NEW mark, NEW lines \in Texts, NEW inner \in Texts, Len(inner) <= Len(lines),
         HasQuote(inner) => HasQuote(lines),
         Rank(mark, lines) = 2 \/ (HasQuote(lines) /\ ~HasQuote(inner))
  PROVE  Size(NoMark, inner) < Size(mark, lines)
<1>1. Len(lines) \in Nat /\ Len(inner) \in Nat
  BY TextIs
<1>2. Rank(NoMark, inner) = 1 /\ Rank(mark, lines) \in 0..2
  BY DEF Rank
<1> QED
  BY <1>1, <1>2 DEF Size

---------------------------------------------------------------------------
(* What the next step is: it shows lines, it passes over lines or from one  *)
(* list to another, or it reads lines as a text of their own.               *)

Shows(mark, lines) ==
  \E n \in 1..Len(lines), m \in Marks, said \in Page :
    /\ Rises(lines) => Tells(said, First(lines, n))
    /\ \A F : NextBlock(F, mark, lines) = said \o F[<<m, Beyond(lines, n)>>]

Passes(mark, lines) ==
  \E n \in 0..Len(lines), m \in Marks :
    /\ \A i \in 1..n : lines[i].kind \notin Worded
    /\ Size(m, Beyond(lines, n)) < Size(mark, lines)
    /\ \A F : NextBlock(F, mark, lines) = F[<<m, Beyond(lines, n)>>]

Nests(mark, lines) ==
  \E n \in 1..Len(lines), m \in Marks, inner \in Texts :
    /\ Retells(inner, First(lines, n))
    /\ Size(NoMark, inner) < Size(mark, lines)
    /\ \A F : NextBlock(F, mark, lines) = F[<<NoMark, inner>>] \o F[<<m, Beyond(lines, n)>>]

Steps(mark, lines) == Shows(mark, lines) \/ Passes(mark, lines) \/ Nests(mark, lines)

LEMMA MarksAre == NoMark \in Marks /\ \A line \in Lines : IsItem(line) => Mark(line) \in Marks /\ Mark(line) # NoMark
BY DEF NoMark, Marks, Lines, IsItem, Mark

LEMMA Parses ==
  ASSUME NEW F, NEW lines, lines # <<>>
  PROVE  NextBlock(F, NoMark, lines) = parse(F, lines)
BY DEF NextBlock

LEMMA Lists ==
  ASSUME NEW F, NEW mark, mark # NoMark, NEW lines, lines # <<>>
  PROVE  NextBlock(F, mark, lines) = list(F, mark, lines)
BY DEF NextBlock

LEMMA ParsesFence ==
  ASSUME NEW F, NEW lines, lines[1].kind = "fence"
  PROVE  parse(F, lines) = ShownAs("code", SubSeq(lines, 2, fence(lines))) \o F[<<NoMark, Beyond(lines, fence(lines) + 1)>>]
BY DEF parse, IsItem, startsTable, HasBar

LEMMA ParsesHeading ==
  ASSUME NEW F, NEW lines, lines[1].kind = "heading"
  PROVE  parse(F, lines) = ShownAs("heading", <<lines[1]>>) \o F[<<NoMark, Beyond(lines, 1)>>]
BY DEF parse, IsItem, startsTable, HasBar

LEMMA ParsesNothing ==
  ASSUME NEW F, NEW lines, lines[1].kind \in {"blank", "rule"}
  PROVE  parse(F, lines) = F[<<NoMark, Beyond(lines, 1)>>]
BY DEF parse, IsItem, startsTable, HasBar

LEMMA ParsesQuote ==
  ASSUME NEW F, NEW lines, lines[1].kind = "quote"
  PROVE  parse(F, lines) = F[<<NoMark, Unquoted(First(lines, quote(lines)))>>] \o F[<<NoMark, Beyond(lines, quote(lines))>>]
BY DEF parse, IsItem, startsTable, HasBar

LEMMA ParsesTable ==
  ASSUME NEW F, NEW lines, startsTable(lines, 1)
  PROVE  parse(F, lines) = ShownAs("table", <<lines[1]>> \o SubSeq(lines, 3, table(lines))) \o F[<<NoMark, Beyond(lines, table(lines))>>]
BY DEF parse, IsItem, startsTable, HasBar

LEMMA ParsesItem ==
  ASSUME NEW F, NEW lines, IsItem(lines[1])
  PROVE  parse(F, lines) = F[<<Mark(lines[1]), lines>>]
BY DEF parse, IsItem, startsTable, HasBar

LEMMA ParsesParagraph ==
  ASSUME NEW F, NEW lines, ~IsItem(lines[1]), ~startsTable(lines, 1),
         lines[1].kind \notin {"blank", "fence", "heading", "rule", "quote"}
  PROVE  parse(F, lines) = ShownAs("paragraph", First(lines, paragraph(lines))) \o F[<<NoMark, Beyond(lines, paragraph(lines))>>]
BY DEF parse, IsItem, startsTable, HasBar

\* A step that shows its first lines as they are shows them all.
LEMMA ShowsFirst ==
  ASSUME NEW mark, NEW lines \in Texts, NEW n \in 1..Len(lines), NEW m \in Marks, NEW element \in Elements,
         \A F : NextBlock(F, mark, lines) = ShownAs(element, First(lines, n)) \o F[<<m, Beyond(lines, n)>>]
  PROVE  Shows(mark, lines)
<1> DEFINE piece == First(lines, n)
           said == ShownAs(element, piece)
<1>1. piece \in Texts /\ n \in 0..Len(lines) /\ said \in Page
  BY Cuts, ShownIs, TextIs
<1>2. Rises(lines) => Rises(piece)
  BY <1>1, PartsRise
<1>3. \A i \in 1..Len(piece) : piece[i].place \in PlacesOf(piece)
  BY <1>1, TextIs DEF PlacesOf
<1> HIDE DEF piece
<1>4. Rises(lines) => Tells(said, piece)
  BY <1>1, <1>2, <1>3, ChosenTell
<1>5. Rises(lines) => Tells(said, First(lines, n))
  BY <1>4 DEF piece
<1>6. \A F : NextBlock(F, mark, lines) = said \o F[<<m, Beyond(lines, n)>>]
  BY DEF piece
<1> HIDE DEF said
<1> QED
  BY <1>1, <1>5, <1>6 DEF Shows

\* The lines taken away from a fence up to the next one.
LEMMA FenceStep ==
  ASSUME NEW lines \in Texts, lines # <<>>, lines[1].kind = "fence"
  PROVE  Shows(NoMark, lines)
<1> DEFINE some == {i \in 2..Len(lines) : lines[i].kind = "fence"}
           end == fence(lines)
           n == IF end < Len(lines) THEN end + 1 ELSE Len(lines)
           piece == SubSeq(lines, 2, end)
           said == ShownAs("code", piece)
<1>1. Len(lines) \in Nat /\ 1 <= Len(lines) /\ DOMAIN lines = 1..Len(lines)
  BY TextIs
<1>2. /\ end \in 0..Len(lines) /\ 1 <= end /\ (end < Len(lines) => lines[end + 1].kind = "fence")
  <2>1. some \in SUBSET (1..Len(lines)) /\ 1 \in 0..Len(lines) /\ \A i \in some : 1 < i
    BY <1>1
  <2>0. end = Until(lines, some)
    BY DEF fence
  <2> HIDE DEF some, end
  <2>2. end \in 0..Len(lines) /\ 1 <= end /\ (end < Len(lines) => end + 1 \in some)
    BY <2>0, <2>1, UntilIs
  <2> QED
    BY <2>2 DEF some
<1>3. \A F : NextBlock(F, NoMark, lines) = said \o F[<<NoMark, Beyond(lines, end + 1)>>]
  <2> SUFFICES ASSUME NEW F PROVE NextBlock(F, NoMark, lines) = said \o F[<<NoMark, Beyond(lines, end + 1)>>]
    OBVIOUS
  <2> QED
    BY Parses, ParsesFence
<1> HIDE DEF end, some
<1>9. Len(lines) \in Nat /\ end \in 0..Len(lines)
  BY <1>1, <1>2
<1>10. end < Len(lines) \/ end = Len(lines)
  BY <1>9
<1>4. n \in 1..Len(lines) /\ n \in 0..Len(lines)
  BY <1>1, <1>2
<1>5. Beyond(lines, end + 1) = Beyond(lines, n)
  <2>1. CASE end < Len(lines)
    BY <2>1
  <2>2. CASE end = Len(lines)
    <3>2. n = Len(lines)
      BY <1>9, <2>2
    <3> HIDE DEF n
    <3> QED
      BY <1>1, <2>2, <3>2 DEF Beyond, Texts
  <2> QED
    BY <1>10, <2>1, <2>2
<1>6. piece \in Texts /\ Len(piece) = end - 1 /\ DOMAIN piece = 1..(end - 1)
      /\ \A i \in 1..(end - 1) : piece[i] = lines[i + 1]
  BY <1>1, <1>2 DEF Texts
<1>7. said \in Page
  BY <1>6, ShownIs DEF Elements
<1>8. ASSUME Rises(lines) PROVE Tells(said, First(lines, n))
  <2> DEFINE whole == First(lines, n)
  <2>1. whole \in Texts /\ Len(whole) = n /\ DOMAIN whole = 1..n /\ \A i \in 1..n : whole[i] = lines[i]
    BY <1>4, Cuts
  <2> HIDE DEF whole, piece, n
  <2>2. Rises(piece)
    <3> SUFFICES ASSUME NEW i \in 1..(end - 1), NEW j \in 1..(end - 1), i < j
                 PROVE  piece[i].place < piece[j].place
      BY <1>6 DEF Rises
    <3>1. i + 1 \in 1..Len(lines) /\ j + 1 \in 1..Len(lines) /\ i + 1 < j + 1
      BY <1>1, <1>2
    <3> QED
      BY <1>1, <1>6, <1>8, <3>1 DEF Rises
  <2>3. PlacesOf(piece) \subseteq PlacesOf(whole)
    <3>1. \A i \in 1..(end - 1) : i + 1 \in 1..n /\ piece[i] = whole[i + 1]
      BY <1>1, <1>2, <1>6, <2>1 DEF n
    <3> QED
      BY <1>6, <2>1, <3>1 DEF PlacesOf
  <2>4. ASSUME NEW i \in 1..Len(whole), whole[i].kind \in Worded PROVE whole[i].place \in PlacesOf(piece)
    <3>1. i # 1 /\ ~(end < Len(lines) /\ i = end + 1)
      BY <1>2, <2>1, <2>4 DEF Worded
    <3>2. i - 1 \in 1..(end - 1) /\ (i - 1) + 1 = i
      BY <1>1, <1>2, <2>1, <3>1 DEF n
    <3>3. piece[i - 1] = whole[i]
      BY <1>6, <2>1, <3>2
    <3> QED
      BY <1>6, <3>2, <3>3 DEF PlacesOf
  <2>5. Tells(said, whole)
    BY <1>6, <2>1, <2>2, <2>3, <2>4, ChosenTell DEF Elements
  <2> QED
    BY <2>5 DEF whole
<1> HIDE DEF said, n
<1> QED
  BY <1>3, <1>4, <1>5, <1>7, <1>8, MarksAre DEF Shows

LEMMA ListsItem ==
  ASSUME NEW F, NEW mark, NEW lines, Mark(lines[1]) = mark, blanks(lines) = 0
  PROVE  list(F, mark, lines) = ShownAs("item", First(lines, 1)) \o F[<<mark, Beyond(lines, 1)>>]
BY DEF list

LEMMA ListsUnder ==
  ASSUME NEW F, NEW mark, NEW lines, Mark(lines[1]) # mark, blanks(lines) = 0, under(mark, lines) > 0
  PROVE  list(F, mark, lines) = nested(F, First(lines, under(mark, lines))) \o F[<<mark, Beyond(lines, under(mark, lines))>>]
BY DEF list

LEMMA ListsBlanks ==
  ASSUME NEW F, NEW mark, NEW lines, Mark(lines[1]) # mark, ~(under(mark, lines) > 0),
         blanks(lines) > 0, blanks(lines) < Len(lines), Mark(lines[blanks(lines) + 1]) = mark
  PROVE  list(F, mark, lines) = F[<<mark, Beyond(lines, blanks(lines))>>]
BY DEF list

LEMMA ListsEnd ==
  ASSUME NEW F, NEW mark, NEW lines, Mark(lines[1]) # mark, ~(under(mark, lines) > 0),
         ~(blanks(lines) > 0 /\ blanks(lines) < Len(lines) /\ Mark(lines[blanks(lines) + 1]) = mark)
  PROVE  list(F, mark, lines) = F[<<NoMark, lines>>]
BY DEF list

LEMMA BlanksAre ==
  ASSUME NEW lines \in Texts, lines # <<>>
  PROVE  /\ blanks(lines) \in 0..Len(lines)
         /\ \A i \in 1..blanks(lines) : IsBlank(lines[i])
         /\ ~IsBlank(lines[1]) => blanks(lines) = 0
<1> DEFINE some == {i \in DOMAIN lines : ~IsBlank(lines[i])}
           b == blanks(lines)
<1>1. Len(lines) \in Nat /\ 1 <= Len(lines) /\ DOMAIN lines = 1..Len(lines)
  BY TextIs
<1>2. some \in SUBSET (1..Len(lines)) /\ b = Until(lines, some)
  BY <1>1 DEF blanks
<1>3. \A i \in 1..Len(lines) : i \notin some => IsBlank(lines[i])
  BY <1>1
<1>4. ~IsBlank(lines[1]) => 1 \in some
  BY <1>1
<1> HIDE DEF some, b
<1>5. b \in 0..Len(lines) /\ \A i \in 1..b : i \notin some
  BY <1>2, UntilIs
<1>6. \A i \in 1..b : IsBlank(lines[i])
  BY <1>1, <1>3, <1>5
<1>7. 1 \in some => b = 0
  BY <1>1, <1>5
<1> QED
  BY <1>4, <1>5, <1>6, <1>7 DEF b

LEMMA UnderIs ==
  ASSUME NEW mark, NEW lines \in Texts
  PROVE  /\ under(mark, lines) \in 0..Len(lines)
         /\ under(mark, lines) > 0 => lines # <<>> /\ ~IsBlank(lines[1])
<1> DEFINE some == {i \in DOMAIN lines : IsBlank(lines[i]) \/ lines[i].indent <= mark.indent}
           u == under(mark, lines)
<1>1. Len(lines) \in Nat /\ DOMAIN lines = 1..Len(lines)
  BY TextIs
<1>2. some \in SUBSET (1..Len(lines)) /\ u = Until(lines, some)
  BY <1>1 DEF under
<1>3. \A i \in 1..Len(lines) : i \notin some => ~IsBlank(lines[i])
  BY <1>1
<1> HIDE DEF some, u
<1>4. u \in 0..Len(lines) /\ \A i \in 1..u : i \notin some
  BY <1>2, UntilIs
<1>5. u > 0 => lines # <<>> /\ ~IsBlank(lines[1])
  BY <1>1, <1>3, <1>4
<1> QED
  BY <1>4, <1>5 DEF u

\* Nested lines keep their words; only their indent is less.
LEMMA ShiftedRetells ==
  ASSUME NEW lines \in Texts, lines # <<>>
  PROVE  /\ Shifted(lines) \in Texts /\ Retells(Shifted(lines), lines)
         /\ \A i \in 1..Len(lines) : Shifted(lines)[i].kind = lines[i].kind
<1> DEFINE indents == {lines[i].indent : i \in DOMAIN lines}
           shift == Min(indents)
           inner == Shifted(lines)
<1>1. /\ Len(lines) \in Nat /\ 1 <= Len(lines) /\ DOMAIN lines = 1..Len(lines)
      /\ \A i \in 1..Len(lines) : lines[i] \in Lines
  BY TextIs
<1>2. \A i \in 1..Len(lines) : lines[i].indent \in indents /\ lines[i].indent \in Nat
  BY <1>1 DEF Lines
<1>3. indents \in SUBSET Nat /\ indents # {}
  BY <1>1, <1>2
<1>4. inner = [i \in 1..Len(lines) |-> [lines[i] EXCEPT !.indent = lines[i].indent - shift]]
  BY <1>1 DEF Shifted
<1> HIDE DEF indents, inner
<1>5. shift \in Nat /\ \A n \in indents : shift <= n
  BY <1>3, LeastIs
<1> HIDE DEF shift
<1>6. ASSUME NEW i \in 1..Len(lines)
      PROVE  inner[i] \in Lines /\ inner[i].kind = lines[i].kind /\ inner[i].place = lines[i].place
  <2>1. lines[i].indent - shift \in Nat
    BY <1>2, <1>5
  <2>2. inner[i] = [lines[i] EXCEPT !.indent = lines[i].indent - shift]
    BY <1>4
  <2> QED
    BY <1>1, <2>1, <2>2 DEF Lines
<1>7. inner \in Texts /\ Len(inner) = Len(lines)
  BY <1>1, <1>4, <1>6 DEF Texts
<1> QED
  BY <1>1, <1>6, <1>7 DEF Retells, inner

\* A quote's lines are read without their mark, as what they are within.
LEMMA UnquotedRetells ==
  ASSUME NEW lines \in Texts
  PROVE  Unquoted(lines) \in Texts /\ Retells(Unquoted(lines), lines) /\ ~HasQuote(Unquoted(lines))
<1> DEFINE inner == Unquoted(lines)
<1>1. /\ Len(lines) \in Nat /\ DOMAIN lines = 1..Len(lines)
      /\ \A i \in 1..Len(lines) : lines[i] \in Lines
  BY TextIs
<1>2. inner = [i \in 1..Len(lines) |-> [lines[i] EXCEPT !.kind = lines[i].within, !.indent = 0]]
  BY <1>1 DEF Unquoted
<1> HIDE DEF inner
<1>3. ASSUME NEW i \in 1..Len(lines)
      PROVE  inner[i] \in Lines /\ inner[i].kind \in {"text", "item"} /\ inner[i].place = lines[i].place
  <2>1. inner[i] = [lines[i] EXCEPT !.kind = lines[i].within, !.indent = 0]
    BY <1>2
  <2>2. lines[i] \in Lines /\ lines[i].within \in {"text", "item"} /\ lines[i].within \in Kinds
    BY <1>1 DEF Lines, Kinds
  <2> DEFINE l == lines[i]
  <2>3. inner[i] = [l EXCEPT !.kind = l.within, !.indent = 0] /\ l \in Lines /\ l.within \in {"text", "item"} /\ l.within \in Kinds
    BY <2>1, <2>2
  <2> HIDE DEF l
  <2>4. [l EXCEPT !.kind = l.within, !.indent = 0] \in Lines
    BY <2>3 DEF Lines
  <2>5. inner[i].kind = l.within /\ inner[i].place = l.place
    BY <2>3 DEF Lines
  <2> QED
    BY <2>3, <2>4, <2>5 DEF l
<1>4. inner \in Texts /\ Len(inner) = Len(lines) /\ DOMAIN inner = 1..Len(lines)
  <2>1. inner \in [1..Len(lines) -> Lines]
    BY <1>2, <1>3
  <2> QED
    BY <1>1, <2>1 DEF Texts
<1>5. Retells(inner, lines)
  BY <1>3, <1>4 DEF Retells, Worded
<1>6. ~HasQuote(inner)
  BY <1>3, <1>4 DEF HasQuote
<1> QED
  BY <1>4, <1>5, <1>6 DEF inner

LEMMA WholeBeyond ==
  ASSUME NEW lines \in Texts
  PROVE  Beyond(lines, 0) = lines
BY DEF Beyond, Texts

\* A blank line or a rule shows nothing.
LEMMA BlankStep ==
  ASSUME NEW lines \in Texts, lines # <<>>, lines[1].kind \in {"blank", "rule"}
  PROVE  Passes(NoMark, lines)
<1>1. Len(lines) \in Nat /\ 1 \in 1..Len(lines)
  BY TextIs
<1>2. \A i \in 1..1 : lines[i].kind \notin Worded
  <2>1. \A i \in 1..1 : i = 1
    OBVIOUS
  <2> QED
    BY <2>1 DEF Worded
<1>3. Size(NoMark, Beyond(lines, 1)) < Size(NoMark, lines)
  BY <1>1, AheadIsLess
<1>4. \A F : NextBlock(F, NoMark, lines) = F[<<NoMark, Beyond(lines, 1)>>]
  BY Parses, ParsesNothing
<1>5. 1 \in 0..Len(lines)
  BY <1>1
<1> QED
  BY <1>2, <1>3, <1>4, <1>5, MarksAre DEF Passes

LEMMA HeadingStep ==
  ASSUME NEW lines \in Texts, lines # <<>>, lines[1].kind = "heading"
  PROVE  Shows(NoMark, lines)
<1>1. Len(lines) \in Nat /\ 1 \in 1..Len(lines)
  BY TextIs
<1>2. First(lines, 1) = <<lines[1]>>
  <2>1. First(lines, 1) \in Texts /\ Len(First(lines, 1)) = 1 /\ First(lines, 1)[1] = lines[1]
    <3>1. 1 \in 0..Len(lines) /\ 1 \in 1..1
      BY <1>1
    <3> QED
      BY <3>1, Cuts
  <2> QED
    BY <2>1 DEF Texts
<1>3. \A F : NextBlock(F, NoMark, lines) = ShownAs("heading", First(lines, 1)) \o F[<<NoMark, Beyond(lines, 1)>>]
  BY <1>2, Parses, ParsesHeading
<1>4. "heading" \in Elements
  BY DEF Elements
<1> QED
  BY <1>1, <1>3, <1>4, ShowsFirst, MarksAre

LEMMA ParagraphStep ==
  ASSUME NEW lines \in Texts, lines # <<>>, ~IsItem(lines[1]), ~startsTable(lines, 1),
         lines[1].kind \notin {"blank", "fence", "heading", "rule", "quote"}
  PROVE  Shows(NoMark, lines)
<1> DEFINE some == {i \in 2..Len(lines) : IsBlank(lines[i]) \/ startsBlock(lines, i)}
           n == paragraph(lines)
<1>1. Len(lines) \in Nat /\ 1 <= Len(lines)
  BY TextIs
<1>2. some \in SUBSET (1..Len(lines)) /\ (\A i \in some : 1 < i) /\ n = Until(lines, some)
  BY <1>1 DEF paragraph
<1>3. \A F : NextBlock(F, NoMark, lines) = ShownAs("paragraph", First(lines, n)) \o F[<<NoMark, Beyond(lines, n)>>]
  BY Parses, ParsesParagraph
<1> HIDE DEF some, n
<1>4. n \in 0..Len(lines) /\ (1 \in 0..Len(lines) => 1 <= n)
  BY <1>2, UntilIs
<1>5. n \in 1..Len(lines)
  BY <1>1, <1>4
<1>6. "paragraph" \in Elements
  BY DEF Elements
<1> QED
  BY <1>3, <1>5, <1>6, ShowsFirst, MarksAre

\* The lines of a quote are a text of their own.
LEMMA QuoteStep ==
  ASSUME NEW lines \in Texts, lines # <<>>, lines[1].kind = "quote"
  PROVE  Nests(NoMark, lines)
<1> DEFINE some == {i \in DOMAIN lines : lines[i].kind # "quote"}
           n == quote(lines)
           piece == First(lines, n)
           inner == Unquoted(piece)
<1>1. Len(lines) \in Nat /\ 1 <= Len(lines) /\ DOMAIN lines = 1..Len(lines)
  BY TextIs
<1>2. some \in SUBSET (1..Len(lines)) /\ (\A i \in some : 1 < i) /\ n = Until(lines, some)
  <2>1. 1 \notin some
    OBVIOUS
  <2>2. some \in SUBSET (1..Len(lines))
    BY <1>1
  <2>3. n = Until(lines, some)
    BY DEF quote
  <2> HIDE DEF some, n
  <2> QED
    BY <1>1, <2>1, <2>2, <2>3
<1>3. \A F : NextBlock(F, NoMark, lines) = F[<<NoMark, inner>>] \o F[<<NoMark, Beyond(lines, n)>>]
  BY Parses, ParsesQuote
<1> HIDE DEF some, n
<1>4. n \in 0..Len(lines) /\ (1 \in 0..Len(lines) => 1 <= n)
  BY <1>2, UntilIs
<1>5. n \in 1..Len(lines)
  BY <1>1, <1>4
<1>6. piece \in Texts /\ Len(piece) = n
  BY <1>4, Cuts
<1> HIDE DEF piece
<1>7. inner \in Texts /\ Retells(inner, piece) /\ ~HasQuote(inner)
  BY <1>6, UnquotedRetells
<1> HIDE DEF inner
<1>8. Len(inner) <= Len(lines)
  BY <1>1, <1>5, <1>6, <1>7 DEF Retells
<1>9. HasQuote(lines)
  BY <1>1 DEF HasQuote
<1>10. Size(NoMark, inner) < Size(NoMark, lines)
  BY <1>7, <1>8, <1>9, WithinIsLess
<1>11. Retells(inner, First(lines, n))
  BY <1>7 DEF piece
<1> QED
  BY <1>3, <1>5, <1>7, <1>10, <1>11, MarksAre DEF Nests

\* An item begins its list.
LEMMA ItemStep ==
  ASSUME NEW lines \in Texts, lines # <<>>, IsItem(lines[1])
  PROVE  Passes(NoMark, lines)
<1> DEFINE m == Mark(lines[1])
<1>1. Len(lines) \in Nat /\ lines[1] \in Lines /\ 0 \in 0..Len(lines)
  BY TextIs
<1>2. m \in Marks /\ m # NoMark
  BY <1>1, MarksAre
<1>3. Beyond(lines, 0) = lines
  BY WholeBeyond
<1>4. Size(m, lines) < Size(NoMark, lines)
  BY <1>1, <1>2 DEF Size, Rank
<1>5. \A F : NextBlock(F, NoMark, lines) = F[<<m, lines>>]
  BY Parses, ParsesItem
<1>6. \A i \in 1..0 : lines[i].kind \notin Worded
  OBVIOUS
<1> HIDE DEF m
<1> QED
  BY <1>1, <1>2, <1>3, <1>4, <1>5, <1>6 DEF Passes

\* The lines of a table are told without its divider.
LEMMA TableStep ==
  ASSUME NEW lines \in Texts, lines # <<>>, startsTable(lines, 1)
  PROVE  Shows(NoMark, lines)
<1> DEFINE some == {i \in 3..Len(lines) : ~HasBar(lines[i])}
           n == table(lines)
           tail == SubSeq(lines, 3, n)
           piece == <<lines[1]>> \o tail
           said == ShownAs("table", piece)
           whole == First(lines, n)
<1>1. /\ Len(lines) \in Nat /\ 2 <= Len(lines) /\ DOMAIN lines = 1..Len(lines)
      /\ \A i \in 1..Len(lines) : lines[i] \in Lines
      /\ lines[2].kind \notin Worded
  BY TextIs DEF startsTable, Divides, Worded
<1>2. some \in SUBSET (1..Len(lines)) /\ (\A i \in some : 2 < i) /\ n = Until(lines, some)
  BY <1>1 DEF table
<1>3. \A F : NextBlock(F, NoMark, lines) = said \o F[<<NoMark, Beyond(lines, n)>>]
  BY Parses, ParsesTable
<1> HIDE DEF some, n
<1>4. n \in 0..Len(lines) /\ (2 \in 0..Len(lines) => 2 <= n)
  BY <1>2, UntilIs
<1>5. n \in Nat /\ 2 <= n /\ n <= Len(lines) /\ n \in 1..Len(lines) /\ Len(lines) \in Nat
  BY <1>1, <1>4
<1>6. tail \in Texts /\ Len(tail) = n - 2 /\ \A i \in 1..(n - 2) : tail[i] = lines[i + 2]
  BY <1>5 DEF Texts
<1> HIDE DEF tail
<1>7. piece \in Texts /\ Len(piece) = n - 1 /\ DOMAIN piece = 1..(n - 1) /\ piece[1] = lines[1]
      /\ \A i \in 1..(n - 2) : piece[i + 1] = lines[i + 2]
  BY <1>1, <1>5, <1>6 DEF Texts
<1> HIDE DEF piece
<1>8. said \in Page
  BY <1>7, ShownIs DEF Elements
<1>9. whole \in Texts /\ Len(whole) = n /\ DOMAIN whole = 1..n /\ \A i \in 1..n : whole[i] = lines[i]
  BY <1>4, Cuts
<1> HIDE DEF whole
<1>10. \A i \in 1..(n - 1) : piece[i] = lines[IF i = 1 THEN 1 ELSE i + 1]
  <2> SUFFICES ASSUME NEW i \in 1..(n - 1), i # 1 PROVE piece[i] = lines[i + 1]
    BY <1>7
  <2>1. i - 1 \in 1..(n - 2) /\ (i - 1) + 1 = i /\ (i - 1) + 2 = i + 1
    BY <1>5
  <2> QED
    BY <1>7, <2>1
<1>11. ASSUME Rises(lines) PROVE Tells(said, whole)
  <2>1. Rises(piece)
    <3> SUFFICES ASSUME NEW i \in 1..(n - 1), NEW j \in 1..(n - 1), i < j
                 PROVE  piece[i].place < piece[j].place
      BY <1>7 DEF Rises
    <3> DEFINE u == IF i = 1 THEN 1 ELSE i + 1
               v == j + 1
    <3>1. u \in 1..Len(lines) /\ v \in 1..Len(lines) /\ u < v
      BY <1>5
    <3>2. piece[i] = lines[u] /\ piece[j] = lines[v]
      BY <1>5, <1>10
    <3> HIDE DEF u, v
    <3> QED
      BY <1>1, <1>11, <3>1, <3>2 DEF Rises
  <2>2. PlacesOf(piece) \subseteq PlacesOf(whole)
    <3>1. \A i \in 1..(n - 1) : \E k \in 1..n : piece[i] = whole[k]
      <4> SUFFICES ASSUME NEW i \in 1..(n - 1) PROVE \E k \in 1..n : piece[i] = whole[k]
        OBVIOUS
      <4>1. 1 \in 1..n /\ i + 1 \in 1..n
        BY <1>5
      <4> QED
        BY <1>9, <1>10, <4>1
    <3>2. ASSUME NEW p \in PlacesOf(piece) PROVE p \in PlacesOf(whole)
      <4>1. PICK i \in 1..(n - 1) : p = piece[i].place
        BY <1>7, <3>2 DEF PlacesOf
      <4>2. PICK k \in 1..n : piece[i] = whole[k]
        BY <3>1
      <4> QED
        BY <1>9, <4>1, <4>2 DEF PlacesOf
    <3> QED
      BY <3>2
  <2>3. ASSUME NEW i \in 1..n, whole[i].kind \in Worded PROVE whole[i].place \in PlacesOf(piece)
    <3>1. i # 2
      BY <1>1, <1>9, <2>3
    <3>2. CASE i = 1
      <4>1. 1 \in 1..(n - 1) /\ whole[i] = piece[1]
        BY <1>5, <1>7, <1>9, <3>2
      <4> QED
        BY <1>7, <4>1 DEF PlacesOf
    <3>3. CASE i # 1
      <4>1. i - 1 \in 1..(n - 1) /\ i - 1 # 1 /\ (i - 1) + 1 = i
        BY <1>5, <3>1, <3>3
      <4>2. piece[i - 1] = whole[i]
        BY <1>9, <1>10, <4>1
      <4> QED
        BY <1>7, <4>1, <4>2 DEF PlacesOf
    <3> QED
      BY <3>2, <3>3
  <2> QED
    BY <1>7, <1>9, <2>1, <2>2, <2>3, ChosenTell DEF Elements
<1>12. Rises(lines) => Tells(said, First(lines, n))
  BY <1>11 DEF whole
<1> HIDE DEF said
<1> QED
  BY <1>3, <1>5, <1>8, <1>12, MarksAre DEF Shows

LEMMA TextSteps ==
  ASSUME NEW lines \in Texts, lines # <<>>
  PROVE  Steps(NoMark, lines)
<1>1. CASE lines[1].kind \in {"blank", "rule"}
  BY <1>1, BlankStep DEF Steps
<1>2. CASE lines[1].kind = "fence"
  BY <1>2, FenceStep DEF Steps
<1>3. CASE lines[1].kind = "heading"
  BY <1>3, HeadingStep DEF Steps
<1>4. CASE lines[1].kind = "quote"
  BY <1>4, QuoteStep DEF Steps
<1>5. CASE startsTable(lines, 1)
  BY <1>5, TableStep DEF Steps
<1>6. CASE IsItem(lines[1])
  BY <1>6, ItemStep DEF Steps
<1>7. CASE ~IsItem(lines[1]) /\ ~startsTable(lines, 1) /\ lines[1].kind \notin {"blank", "fence", "heading", "rule", "quote"}
  BY <1>7, ParagraphStep DEF Steps
<1> QED
  BY <1>1, <1>2, <1>3, <1>4, <1>5, <1>6, <1>7

\* An item of the list.
LEMMA ItemOfListStep ==
  ASSUME NEW mark \in Marks, mark # NoMark, NEW lines \in Texts, lines # <<>>, Mark(lines[1]) = mark
  PROVE  Shows(mark, lines)
<1>1. Len(lines) \in Nat /\ 1 \in 1..Len(lines) /\ lines[1].kind \in Kinds
  BY TextIs
<1>2. ~IsBlank(lines[1])
  BY <1>1 DEF Marks, Mark, IsBlank, Kinds
<1>3. blanks(lines) = 0
  BY <1>2, BlanksAre
<1>4. \A F : NextBlock(F, mark, lines) = ShownAs("item", First(lines, 1)) \o F[<<mark, Beyond(lines, 1)>>]
  BY <1>3, Lists, ListsItem
<1>5. "item" \in Elements
  BY DEF Elements
<1> QED
  BY <1>1, <1>4, <1>5, ShowsFirst

\* The lines under one.
LEMMA UnderStep ==
  ASSUME NEW mark \in Marks, mark # NoMark, NEW lines \in Texts, lines # <<>>, Mark(lines[1]) # mark,
         under(mark, lines) > 0
  PROVE  Steps(mark, lines)
<1> DEFINE n == under(mark, lines)
           piece == First(lines, n)
           inner == Shifted(piece)
<1>1. Len(lines) \in Nat /\ 1 <= Len(lines) /\ DOMAIN lines = 1..Len(lines)
  BY TextIs
<1>2. n \in 0..Len(lines) /\ ~IsBlank(lines[1])
  BY UnderIs
<1>3. blanks(lines) = 0
  BY <1>2, BlanksAre
<1>4. \A F : NextBlock(F, mark, lines) = nested(F, piece) \o F[<<mark, Beyond(lines, n)>>]
  <2> SUFFICES ASSUME NEW F PROVE NextBlock(F, mark, lines) = nested(F, piece) \o F[<<mark, Beyond(lines, n)>>]
    OBVIOUS
  <2>1. NextBlock(F, mark, lines) = list(F, mark, lines)
    BY Lists
  <2>2. list(F, mark, lines) = nested(F, piece) \o F[<<mark, Beyond(lines, n)>>]
    BY <1>3, ListsUnder
  <2> QED
    BY <2>1, <2>2
<1>5. n > 0
  OBVIOUS
<1> HIDE DEF n
<1>6. n \in 1..Len(lines)
  BY <1>1, <1>2, <1>5
<1>7. piece \in Texts /\ Len(piece) = n /\ DOMAIN piece = 1..n /\ \A i \in 1..n : piece[i] = lines[i]
  BY <1>2, Cuts
<1> HIDE DEF piece
<1>8. CASE IsItem(piece[1])
  <2>1. \A F : NextBlock(F, mark, lines) = F[<<NoMark, inner>>] \o F[<<mark, Beyond(lines, n)>>]
    BY <1>4, <1>8 DEF nested
  <2>2. piece # <<>>
    BY <1>1, <1>6, <1>7
  <2>3. inner \in Texts /\ Retells(inner, piece) /\ \A i \in 1..n : inner[i].kind = lines[i].kind
    BY <1>7, <2>2, ShiftedRetells
  <2> HIDE DEF inner
  <2>4. Len(inner) <= Len(lines) /\ DOMAIN inner = 1..n
    BY <1>1, <1>6, <1>7, <2>3, TextIs DEF Retells
  <2>5. HasQuote(inner) => HasQuote(lines)
    <3>1. \A i \in 1..n : i \in 1..Len(lines)
      BY <1>1, <1>6
    <3> QED
      BY <1>1, <2>3, <2>4, <3>1 DEF HasQuote
  <2>6. Rank(mark, lines) = 2
    BY DEF Rank
  <2>7. Size(NoMark, inner) < Size(mark, lines)
    BY <2>3, <2>4, <2>5, <2>6, WithinIsLess
  <2>8. Retells(inner, First(lines, n))
    BY <2>3 DEF piece
  <2> QED
    BY <1>6, <2>1, <2>3, <2>7, <2>8 DEF Nests, Steps
<1>9. CASE ~IsItem(piece[1])
  <2>1. \A F : NextBlock(F, mark, lines) = ShownAs("item", piece) \o F[<<mark, Beyond(lines, n)>>]
    BY <1>4, <1>9 DEF nested
  <2>2. \A F : NextBlock(F, mark, lines) = ShownAs("item", First(lines, n)) \o F[<<mark, Beyond(lines, n)>>]
    BY <2>1 DEF piece
  <2>3. "item" \in Elements
    BY DEF Elements
  <2>4. Shows(mark, lines)
    BY <1>6, <2>2, <2>3, ShowsFirst
  <2> QED
    BY <2>4 DEF Steps
<1> QED
  BY <1>8, <1>9

\* Blank lines before another item.
LEMMA BlanksStep ==
  ASSUME NEW mark \in Marks, mark # NoMark, NEW lines \in Texts, lines # <<>>, Mark(lines[1]) # mark,
         ~(under(mark, lines) > 0),
         blanks(lines) > 0, blanks(lines) < Len(lines), Mark(lines[blanks(lines) + 1]) = mark
  PROVE  Passes(mark, lines)
<1> DEFINE n == blanks(lines)
<1>1. n \in 0..Len(lines) /\ \A i \in 1..n : IsBlank(lines[i])
  BY BlanksAre
<1>2. \A F : NextBlock(F, mark, lines) = F[<<mark, Beyond(lines, n)>>]
  <2> SUFFICES ASSUME NEW F PROVE NextBlock(F, mark, lines) = F[<<mark, Beyond(lines, n)>>]
    OBVIOUS
  <2>1. NextBlock(F, mark, lines) = list(F, mark, lines)
    BY Lists
  <2>2. list(F, mark, lines) = F[<<mark, Beyond(lines, n)>>]
    BY ListsBlanks
  <2> QED
    BY <2>1, <2>2
<1>3. n > 0
  OBVIOUS
<1> HIDE DEF n
<1>4. Len(lines) \in Nat /\ n \in 1..Len(lines)
  BY <1>1, <1>3, TextIs
<1>5. Size(mark, Beyond(lines, n)) < Size(mark, lines)
  BY <1>4, AheadIsLess
<1>6. \A i \in 1..n : lines[i].kind \notin Worded
  BY <1>1 DEF IsBlank, Worded
<1> QED
  BY <1>1, <1>2, <1>5, <1>6 DEF Passes

\* The list is over.
LEMMA EndStep ==
  ASSUME NEW mark \in Marks, mark # NoMark, NEW lines \in Texts, lines # <<>>, Mark(lines[1]) # mark,
         ~(under(mark, lines) > 0),
         ~(blanks(lines) > 0 /\ blanks(lines) < Len(lines) /\ Mark(lines[blanks(lines) + 1]) = mark)
  PROVE  Passes(mark, lines)
<1>1. Len(lines) \in Nat /\ 0 \in 0..Len(lines)
  BY TextIs
<1>2. Beyond(lines, 0) = lines
  BY WholeBeyond
<1>3. Size(NoMark, lines) < Size(mark, lines)
  BY <1>1 DEF Size, Rank
<1>4. \A F : NextBlock(F, mark, lines) = F[<<NoMark, lines>>]
  BY Lists, ListsEnd
<1>5. \A i \in 1..0 : lines[i].kind \notin Worded
  OBVIOUS
<1> QED
  BY <1>1, <1>2, <1>3, <1>4, <1>5, MarksAre DEF Passes

LEMMA AlwaysSteps ==
  ASSUME NEW mark \in Marks, NEW lines \in Texts, lines # <<>>
  PROVE  Steps(mark, lines)
<1>1. CASE mark = NoMark
  BY <1>1, TextSteps
<1>2. CASE mark # NoMark /\ Mark(lines[1]) = mark
  BY <1>2, ItemOfListStep DEF Steps
<1>3. CASE mark # NoMark /\ Mark(lines[1]) # mark /\ under(mark, lines) > 0
  BY <1>3, UnderStep
<1>4. CASE mark # NoMark /\ Mark(lines[1]) # mark /\ ~(under(mark, lines) > 0)
           /\ blanks(lines) > 0 /\ blanks(lines) < Len(lines) /\ Mark(lines[blanks(lines) + 1]) = mark
  BY <1>4, BlanksStep DEF Steps
<1>5. CASE mark # NoMark /\ Mark(lines[1]) # mark /\ ~(under(mark, lines) > 0)
           /\ ~(blanks(lines) > 0 /\ blanks(lines) < Len(lines) /\ Mark(lines[blanks(lines) + 1]) = mark)
  BY <1>5, EndStep DEF Steps
<1> QED
  BY <1>1, <1>2, <1>3, <1>4, <1>5

---------------------------------------------------------------------------
(* So the page is what its definition says.                                 *)

Readings == Marks \X Texts

LEMMA BlankPage == <<>> \in Page
BY DEF Page

\* A step gives a page, and looks only at what is smaller.
LEMMA StepsGivePages ==
  ASSUME NEW F \in [Readings -> Page], NEW mark \in Marks, NEW lines \in Texts
  PROVE  NextBlock(F, mark, lines) \in Page
<1>1. CASE lines = <<>>
  BY <1>1, BlankPage DEF NextBlock
<1>2. CASE lines # <<>>
  <2>0. \A m \in Marks, n \in 0..Len(lines) : F[<<m, Beyond(lines, n)>>] \in Page
    BY Cuts DEF Readings
  <2>00. \A a, b \in Page : a \o b \in Page
    BY DEF Page
  <2>000. Len(lines) \in Nat
    BY TextIs
  <2>1. CASE Shows(mark, lines)
    <3>1. PICK n \in 1..Len(lines), m \in Marks, said \in Page :
            \A G : NextBlock(G, mark, lines) = said \o G[<<m, Beyond(lines, n)>>]
      BY <2>1 DEF Shows
    <3>2. n \in 0..Len(lines)
      BY <2>000
    <3> QED
      BY <2>0, <2>00, <3>1, <3>2
  <2>2. CASE Passes(mark, lines)
    <3>1. PICK n \in 0..Len(lines), m \in Marks : \A G : NextBlock(G, mark, lines) = G[<<m, Beyond(lines, n)>>]
      BY <2>2 DEF Passes
    <3> QED
      BY <2>0, <3>1
  <2>3. CASE Nests(mark, lines)
    <3>1. PICK n \in 1..Len(lines), m \in Marks, inner \in Texts :
            \A G : NextBlock(G, mark, lines) = G[<<NoMark, inner>>] \o G[<<m, Beyond(lines, n)>>]
      BY <2>3 DEF Nests
    <3>2. n \in 0..Len(lines)
      BY <2>000
    <3>3. F[<<NoMark, inner>>] \in Page
      BY MarksAre DEF Readings
    <3> QED
      BY <2>0, <2>00, <3>1, <3>2, <3>3
  <2> QED
    BY <1>2, <2>1, <2>2, <2>3, AlwaysSteps DEF Steps
<1> QED
  BY <1>1, <1>2

LEMMA StepsLook ==
  ASSUME NEW F, NEW G, NEW mark \in Marks, NEW lines \in Texts,
         \A m \in Marks, text \in Texts :
           Size(m, text) < Size(mark, lines) => F[<<m, text>>] = G[<<m, text>>]
  PROVE  NextBlock(F, mark, lines) = NextBlock(G, mark, lines)
<1>1. CASE lines = <<>>
  BY <1>1 DEF NextBlock
<1>2. CASE lines # <<>>
  <2>0. \A m \in Marks, n \in 1..Len(lines) : F[<<m, Beyond(lines, n)>>] = G[<<m, Beyond(lines, n)>>]
    <3> SUFFICES ASSUME NEW m \in Marks, NEW n \in 1..Len(lines)
                 PROVE  F[<<m, Beyond(lines, n)>>] = G[<<m, Beyond(lines, n)>>]
      OBVIOUS
    <3>1. n \in 0..Len(lines)
      BY TextIs
    <3>2. Beyond(lines, n) \in Texts /\ Size(m, Beyond(lines, n)) < Size(mark, lines)
      BY <3>1, Cuts, AheadIsLess
    <3> QED
      BY <3>2
  <2>1. CASE Shows(mark, lines)
    <3>1. PICK n \in 1..Len(lines), m \in Marks, said \in Page :
            \A H : NextBlock(H, mark, lines) = said \o H[<<m, Beyond(lines, n)>>]
      BY <2>1 DEF Shows
    <3> QED
      BY <2>0, <3>1
  <2>2. CASE Passes(mark, lines)
    <3>1. PICK n \in 0..Len(lines), m \in Marks :
            /\ Size(m, Beyond(lines, n)) < Size(mark, lines)
            /\ \A H : NextBlock(H, mark, lines) = H[<<m, Beyond(lines, n)>>]
      BY <2>2 DEF Passes
    <3>2. Beyond(lines, n) \in Texts
      BY Cuts
    <3> QED
      BY <3>1, <3>2
  <2>3. CASE Nests(mark, lines)
    <3>1. PICK n \in 1..Len(lines), m \in Marks, inner \in Texts :
            /\ Size(NoMark, inner) < Size(mark, lines)
            /\ \A H : NextBlock(H, mark, lines) = H[<<NoMark, inner>>] \o H[<<m, Beyond(lines, n)>>]
      BY <2>3 DEF Nests
    <3>2. F[<<NoMark, inner>>] = G[<<NoMark, inner>>]
      BY <3>1, MarksAre
    <3> QED
      BY <2>0, <3>1, <3>2
  <2> QED
    BY <1>2, <2>1, <2>2, <2>3, AlwaysSteps DEF Steps
<1> QED
  BY <1>1, <1>2

\* What the page is said to be, of what it is.
Reads(F) == [reading \in Marks \X Texts |-> NextBlock(F, reading[1], reading[2])]

LEMMA PageExists == \E F \in [Readings -> Page] : F = Reads(F)
<1> DEFINE step == [F \in [Readings -> Page] |-> Reads(F)]
           size == [reading \in Readings |-> Size(reading[1], reading[2])]
<1>1. Page # {}
  BY BlankPage
<1>2. size \in [Readings -> Nat]
  <2>1. \A reading \in Readings : reading[1] \in Marks /\ reading[2] \in Texts
    BY DEF Readings
  <2>2. \A reading \in Readings : Size(reading[1], reading[2]) \in Nat
    BY <2>1, SizeIs
  <2> QED
    BY <2>2
<1>3. step \in [[Readings -> Page] -> [Readings -> Page]]
  <2>1. ASSUME NEW F \in [Readings -> Page] PROVE Reads(F) \in [Readings -> Page]
    <3>1. \A reading \in Readings : NextBlock(F, reading[1], reading[2]) \in Page
      BY StepsGivePages DEF Readings
    <3> QED
      BY <3>1 DEF Reads, Readings
  <2> QED
    BY <2>1
<1>4. LooksBack(step, Readings, Page, size)
  <2> SUFFICES ASSUME NEW F \in [Readings -> Page], NEW G \in [Readings -> Page], NEW reading \in Readings,
                      \A y \in Readings : size[y] < size[reading] => F[y] = G[y]
               PROVE  step[F][reading] = step[G][reading]
    BY DEF LooksBack
  <2> DEFINE mark == reading[1]
             lines == reading[2]
  <2>1. mark \in Marks /\ lines \in Texts
    BY DEF Readings
  <2>2. step[F][reading] = NextBlock(F, mark, lines) /\ step[G][reading] = NextBlock(G, mark, lines)
    BY DEF Reads, Readings
  <2>3. \A m \in Marks, text \in Texts :
          Size(m, text) < Size(mark, lines) => F[<<m, text>>] = G[<<m, text>>]
    <3> SUFFICES ASSUME NEW m \in Marks, NEW text \in Texts, Size(m, text) < Size(mark, lines)
                 PROVE  F[<<m, text>>] = G[<<m, text>>]
      OBVIOUS
    <3>1. <<m, text>> \in Readings /\ size[<<m, text>>] = Size(m, text) /\ size[reading] = Size(mark, lines)
      BY DEF Readings
    <3> QED
      BY <3>1
  <2> HIDE DEF mark, lines, step, size
  <2>4. NextBlock(F, mark, lines) = NextBlock(G, mark, lines)
    BY <2>1, <2>3, StepsLook
  <2> QED
    BY <2>2, <2>4
<1> HIDE DEF step, size
<1>7. HasFixed(step, Readings, Page)
  BY <1>1, <1>2, <1>3, <1>4, FixedPoint
<1>5. PICK F \in [Readings -> Page] : F = step[F]
  BY <1>7 DEF HasFixed
<1>6. step[F] = Reads(F)
  BY DEF step
<1> QED
  BY <1>5, <1>6

LEMMA PageReads == page = Reads(page)
<1> DEFINE chosen == CHOOSE F : F = Reads(F)
<1>1. chosen = Reads(chosen)
  BY PageExists
<1>2. page = chosen
  BY DEF page, Reads, NextBlock
<1> HIDE DEF chosen
<1> QED
  BY <1>1, <1>2

LEMMA PageOf ==
  ASSUME NEW mark \in Marks, NEW lines \in Texts
  PROVE  page[<<mark, lines>>] = NextBlock(page, mark, lines)
<1>1. <<mark, lines>> \in Marks \X Texts
  OBVIOUS
<1>2. Reads(page)[<<mark, lines>>] = NextBlock(page, mark, lines)
  BY <1>1 DEF Reads
<1> QED
  BY <1>2, PageReads

---------------------------------------------------------------------------
(* And it tells every text that rises.                                      *)

TellsIt(mark, lines) ==
  /\ page[<<mark, lines>>] \in Page
  /\ Rises(lines) => Tells(page[<<mark, lines>>], lines)

LEMMA StepTellsIt ==
  ASSUME NEW mark \in Marks, NEW lines \in Texts,
         \A m \in Marks, text \in Texts : Size(m, text) < Size(mark, lines) => TellsIt(m, text)
  PROVE  TellsIt(mark, lines)
<1> DEFINE here == page[<<mark, lines>>]
           Ahead(m, n) == page[<<m, Beyond(lines, n)>>]
<1>0. here = NextBlock(page, mark, lines)
  BY PageOf
<1>1. CASE lines = <<>>
  <2>1. here = <<>>
    BY <1>0, <1>1 DEF NextBlock
  <2>2. <<>> \in Page /\ Tells(<<>>, lines)
    <3>1. \A i \in 1..Len(lines) : lines[i].kind \notin Worded
      BY <1>1
    <3> QED
      BY <3>1, NothingTells
  <2> QED
    BY <2>1, <2>2 DEF TellsIt
<1>2. CASE lines # <<>>
  <2>1. \A a, b \in Page : a \o b \in Page
    BY DEF Page
  <2>2. Len(lines) \in Nat
    BY TextIs
  <2>3. ASSUME NEW n \in 0..Len(lines), NEW m \in Marks, Size(m, Beyond(lines, n)) < Size(mark, lines)
        PROVE  Ahead(m, n) \in Page /\ (Rises(lines) => Tells(Ahead(m, n), Beyond(lines, n)))
    <3>1. Beyond(lines, n) \in Texts
      BY Cuts
    <3>2. TellsIt(m, Beyond(lines, n))
      BY <2>3, <3>1
    <3>3. Rises(lines) => Rises(Beyond(lines, n))
      BY PartsRise
    <3> QED
      BY <3>2, <3>3 DEF TellsIt
  <2>4. CASE Shows(mark, lines)
    <3>1. PICK n \in 1..Len(lines), m \in Marks, said \in Page :
            /\ Rises(lines) => Tells(said, First(lines, n))
            /\ \A F : NextBlock(F, mark, lines) = said \o F[<<m, Beyond(lines, n)>>]
      BY <2>4 DEF Shows
    <3>2. n \in 0..Len(lines) /\ Size(m, Beyond(lines, n)) < Size(mark, lines)
      BY <2>2, AheadIsLess
    <3>3. Ahead(m, n) \in Page /\ (Rises(lines) => Tells(Ahead(m, n), Beyond(lines, n)))
      BY <2>3, <3>2
    <3>4. here = said \o Ahead(m, n)
      BY <1>0, <3>1
    <3> HIDE DEF here, Ahead
    <3>5. here \in Page
      BY <2>1, <3>3, <3>4
    <3>6. Rises(lines) => Tells(here, lines)
      BY <3>1, <3>2, <3>3, <3>4, Joins
    <3> QED
      BY <3>5, <3>6 DEF TellsIt, here
  <2>5. CASE Passes(mark, lines)
    <3>1. PICK n \in 0..Len(lines), m \in Marks :
            /\ \A i \in 1..n : lines[i].kind \notin Worded
            /\ Size(m, Beyond(lines, n)) < Size(mark, lines)
            /\ \A F : NextBlock(F, mark, lines) = F[<<m, Beyond(lines, n)>>]
      BY <2>5 DEF Passes
    <3>2. Ahead(m, n) \in Page /\ (Rises(lines) => Tells(Ahead(m, n), Beyond(lines, n)))
      BY <2>3, <3>1
    <3>3. here = Ahead(m, n)
      BY <1>0, <3>1
    <3> HIDE DEF here, Ahead
    <3>4. <<>> \in Page /\ Tells(<<>>, First(lines, n))
      <4>1. First(lines, n) \in Texts /\ Len(First(lines, n)) = n /\ \A i \in 1..n : First(lines, n)[i] = lines[i]
        BY Cuts
      <4>2. \A i \in 1..Len(First(lines, n)) : First(lines, n)[i].kind \notin Worded
        BY <3>1, <4>1
      <4> QED
        BY <4>1, <4>2, NothingTells
    <3>5. here = <<>> \o Ahead(m, n)
      BY <3>2, <3>3 DEF Page
    <3>6. Rises(lines) => Tells(here, lines)
      BY <3>2, <3>4, <3>5, Joins
    <3> QED
      BY <3>2, <3>3, <3>6 DEF TellsIt, here
  <2>6. CASE Nests(mark, lines)
    <3>1. PICK n \in 1..Len(lines), m \in Marks, inner \in Texts :
            /\ Retells(inner, First(lines, n))
            /\ Size(NoMark, inner) < Size(mark, lines)
            /\ \A F : NextBlock(F, mark, lines) = F[<<NoMark, inner>>] \o F[<<m, Beyond(lines, n)>>]
      BY <2>6 DEF Nests
    <3> DEFINE within == page[<<NoMark, inner>>]
    <3>2. n \in 0..Len(lines) /\ Size(m, Beyond(lines, n)) < Size(mark, lines)
      BY <2>2, AheadIsLess
    <3>3. Ahead(m, n) \in Page /\ (Rises(lines) => Tells(Ahead(m, n), Beyond(lines, n)))
      BY <2>3, <3>2
    <3>4. here = within \o Ahead(m, n)
      BY <1>0, <3>1
    <3>5. TellsIt(NoMark, inner)
      BY <3>1, MarksAre
    <3>6. within \in Page /\ (Rises(inner) => Tells(within, inner))
      BY <3>5 DEF TellsIt
    <3> HIDE DEF here, Ahead, within
    <3>7. here \in Page
      BY <2>1, <3>3, <3>4, <3>6
    <3>8. ASSUME Rises(lines) PROVE Tells(here, lines)
      <4>1. First(lines, n) \in Texts /\ Rises(First(lines, n))
        BY <3>2, <3>8, Cuts, PartsRise
      <4>2. Tells(within, inner)
        BY <3>1, <3>6, <4>1, RetoldRises
      <4>3. Tells(within, First(lines, n))
        BY <3>1, <4>1, <4>2, RetoldTells
      <4> QED
        BY <3>2, <3>3, <3>4, <3>6, <3>8, <4>3, Joins
    <3> QED
      BY <3>7, <3>8 DEF TellsIt, here
  <2> QED
    BY <1>2, <2>4, <2>5, <2>6, AlwaysSteps DEF Steps
<1> QED
  BY <1>1, <1>2

LEMMA PageTellsIt ==
  ASSUME NEW mark \in Marks, NEW lines \in Texts
  PROVE  TellsIt(mark, lines)
<1> DEFINE Bad == {reading \in Readings : ~TellsIt(reading[1], reading[2])}
           Sizes == {Size(reading[1], reading[2]) : reading \in Bad}
<1> SUFFICES ASSUME ~TellsIt(mark, lines) PROVE FALSE
  OBVIOUS
<1>0. <<mark, lines>> \in Bad
  BY DEF Readings
<1>1. Sizes \in SUBSET Nat /\ Sizes # {}
  <2>1. \A reading \in Bad : Size(reading[1], reading[2]) \in Nat
    BY SizeIs DEF Readings
  <2> HIDE DEF Bad
  <2> QED
    BY <1>0, <2>1
<1>2. PICK k \in Sizes : \A i \in Sizes : k <= i
  <2> HIDE DEF Sizes
  <2> QED
    BY <1>1, LeastNatural
<1>3. PICK bad \in Bad : k = Size(bad[1], bad[2])
  BY <1>2
<1>4. bad[1] \in Marks /\ bad[2] \in Texts /\ ~TellsIt(bad[1], bad[2])
  BY <1>3 DEF Readings
<1>5. ASSUME NEW m \in Marks, NEW text \in Texts, Size(m, text) < Size(bad[1], bad[2]) PROVE TellsIt(m, text)
  <2> SUFFICES ASSUME ~TellsIt(m, text) PROVE FALSE
    OBVIOUS
  <2>1. <<m, text>> \in Bad /\ <<m, text>>[1] = m /\ <<m, text>>[2] = text
    BY DEF Readings
  <2>2. Size(m, text) \in Sizes
    BY <2>1
  <2>3. k <= Size(m, text) /\ Size(m, text) \in Nat /\ k \in Nat
    BY <1>1, <1>2, <2>2
  <2> HIDE DEF Bad, Sizes
  <2> QED
    BY <1>3, <1>5, <2>3
<1> QED
  BY <1>4, <1>5, StepTellsIt

---------------------------------------------------------------------------
(* The report's text.                                                        *)

DocumentOK ==
  /\ document \in Texts /\ Len(document) <= MaxLines
  /\ \A i \in 1..Len(document) : document[i].place = i

LEMMA ShapesAre == \A shape \in LineShapes : shape.kind \in Kinds /\ shape.indent \in Nat /\ shape.within \in {"text", "item"}
BY DEF LineShapes, Line, Kinds

LEMMA DocumentInit == MarkdownInit => DocumentOK
<1> SUFFICES ASSUME MarkdownInit PROVE DocumentOK
  OBVIOUS
<1>1. PICK shapes \in BoundedSeq(LineShapes, MaxLines) : document = Placed(shapes)
  BY DEF MarkdownInit
<1>2. PICK n \in 0..MaxLines : shapes \in [1..n -> LineShapes]
  BY <1>1, MarkdownAssumption DEF BoundedSeq, SeqOf
<1>3. n \in Nat
  BY MarkdownAssumption
<1>4. document = [i \in 1..n |->
                    [kind |-> shapes[i].kind, indent |-> shapes[i].indent, within |-> shapes[i].within, place |-> i]]
  BY <1>1, <1>2 DEF Placed
<1>5. ASSUME NEW i \in 1..n PROVE document[i] \in Lines /\ document[i].place = i
  <2>1. shapes[i] \in LineShapes
    BY <1>2
  <2>2. shapes[i].kind \in Kinds /\ shapes[i].indent \in Nat /\ shapes[i].within \in {"text", "item"} /\ i \in Nat
    BY <2>1, <1>3, ShapesAre
  <2> QED
    BY <1>4, <2>2 DEF Lines
<1>6. document \in Texts /\ Len(document) = n
  BY <1>3, <1>4, <1>5 DEF Texts
<1>7. n <= MaxLines
  BY MarkdownAssumption
<1> QED
  BY <1>5, <1>6, <1>7 DEF DocumentOK

LEMMA DocumentShown == DocumentOK => NoLineLost
<1> SUFFICES ASSUME DocumentOK PROVE NoLineLost
  OBVIOUS
<1> DEFINE top == page[<<NoMark, document>>]
<1>1. document \in Texts /\ Len(document) \in Nat /\ DOMAIN document = 1..Len(document)
      /\ \A i \in 1..Len(document) : document[i].place = i
  BY TextIs DEF DocumentOK
<1>2. Rises(document)
  BY <1>1 DEF Rises
<1>3. TellsIt(NoMark, document)
  BY <1>1, MarksAre, PageTellsIt
<1>4. top \in Page /\ Tells(top, document)
  BY <1>2, <1>3 DEF TellsIt
<1>5. Len(top) \in Nat /\ DOMAIN top = 1..Len(top)
  BY <1>4, PageIs
<1> HIDE DEF top
<1>6. ASSUME NEW i \in 1..(Len(top) - 1) PROVE top[i].place < top[i + 1].place
  <2>1. i \in DOMAIN top /\ i + 1 \in DOMAIN top /\ i < i + 1
    BY <1>5
  <2> QED
    BY <1>4, <2>1 DEF Tells, Rises
<1>7. ASSUME NEW i \in DOMAIN document, document[i].kind \in Worded PROVE i \in {top[k].place : k \in DOMAIN top}
  <2>1. document[i].place \in PlacesOf(top)
    BY <1>4, <1>7 DEF Tells
  <2>2. document[i].place = i
    BY <1>1
  <2> QED
    BY <2>1, <2>2 DEF PlacesOf
<1> QED
  BY <1>6, <1>7 DEF NoLineLost, top

LEMMA DocumentStays == DocumentOK /\ [MarkdownNext]_mvars => DocumentOK'
  BY DEF MarkdownNext, mvars, DocumentOK

\* Every line of a report that has words is on the page, once and in the text's order, for
\* texts of any length, whatever is quoted, fenced, listed or nested in what
\* (markdown.tsx:42-155, 226-312).
THEOREM EveryLineIsShown == MarkdownSpec => []NoLineLost
  BY DocumentInit, DocumentStays, DocumentShown, PTL DEF MarkdownSpec

---------------------------------------------------------------------------
(* The browser.  Its parts have no state in common, so a step of one is     *)
(* none of another: what each keeps by itself it keeps among the others.    *)

LEMMA PartsBegin ==
  BrowserInit => /\ UseApiInit /\ ViewsInit /\ LaunchInit /\ RobotsInit /\ LookInit
                 /\ DocumentOK /\ part \in {"hook", "pages", "report", "form", "robot", "look"}
<1> SUFFICES ASSUME BrowserInit
             PROVE  /\ UseApiInit /\ ViewsInit /\ LaunchInit /\ RobotsInit /\ LookInit
                    /\ DocumentOK /\ part \in {"hook", "pages", "report", "form", "robot", "look"}
  OBVIOUS
<1>1. /\ UseApiInit /\ ViewsInit /\ LaunchInit /\ RobotsInit /\ LookInit
      /\ part \in {"hook", "pages", "report", "form", "robot", "look"}
      /\ MarkdownInit \/ document = <<>>
  BY Zenon DEF BrowserInit
<1>2. document = <<>> => DocumentOK
  BY MarkdownAssumption DEF DocumentOK, Texts
<1> QED
  BY <1>1, <1>2, DocumentInit

LEMMA PartsStep ==
  [BrowserNext]_parts => /\ [UseApiNext]_vars /\ [ViewsNext]_wvars /\ [MarkdownNext]_mvars
                         /\ [LaunchNext]_lvars /\ [RobotsNext]_bvars /\ [LookNext]_kvars /\ UNCHANGED part
  BY Zenon DEF BrowserNext, parts

\* The whole browser's state is as declared, whichever of its parts is at work: the hooks, the
\* pages, a report, the form, a robot or its look.
THEOREM BrowserTypes == BrowserSpec => []BrowserTypeOK
<1>1. BrowserSpec => /\ UseApiSpec /\ ViewsSpec /\ LaunchSpec /\ RobotsSpec /\ LookSpec
  BY PartsBegin, PartsStep, PTL DEF BrowserSpec, UseApiSpec, ViewsSpec, LaunchSpec, RobotsSpec, LookSpec
<1>2. BrowserSpec => [](DocumentOK /\ part \in {"hook", "pages", "report", "form", "robot", "look"})
  <2>1. /\ DocumentOK /\ part \in {"hook", "pages", "report", "form", "robot", "look"}
        /\ [MarkdownNext]_mvars /\ UNCHANGED part
        => (DocumentOK /\ part \in {"hook", "pages", "report", "form", "robot", "look"})'
    BY DocumentStays
  <2> QED
    BY <2>1, PartsBegin, PartsStep, PTL DEF BrowserSpec
<1>3. ViewsSpec => []ViewsTypeOK
  BY ViewsInitTypes, ViewsStepTypes, PTL DEF ViewsSpec
<1>4. /\ UseApiTypeOK /\ ViewsTypeOK /\ LaunchTypeOK /\ RobotsTypeOK /\ LookTypeOK
      /\ DocumentOK /\ part \in {"hook", "pages", "report", "form", "robot", "look"}
      => BrowserTypeOK
  BY DEF BrowserTypeOK, DocumentOK
<1> QED
  BY <1>1, <1>2, <1>3, <1>4, HookTypeCorrect, LaunchHasTypes, RobotsHaveTypes, LookHasTypes, PTL
=============================================================================
