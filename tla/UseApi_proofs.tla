--------------------------- MODULE UseApi_proofs ----------------------------
(***************************************************************************)
(* A hook that keeps its key never goes back to an older answer, for any   *)
(* hooks, keys, requests under way and writes.                             *)
(*                                                                         *)
(* What makes it so is the live flag: of a hook's requests at most one is  *)
(* live (OneLive), it was sent after every answer that the hook has taken, *)
(* and the server only moves forward, so its answer is no older than what  *)
(* the hook shows (LiveIsNewer).  That an answer of the server is no older *)
(* needs that what a hook shows was once true (NotAhead).                  *)
(***************************************************************************)
EXTENDS UseApi, TLAPS

LEMMA Markers == None \notin Data /\ Waiting \notin Data /\ None # Waiting
  BY BoundsAssumption DEF None, Waiting, Data

\* A request has data, or an error, or neither as long as it waits.
Answers ==
    \A c \in calls : c.error = NoError <=> c.data \in Data \cup {Waiting}

\* A hook shows, and a request brings, what the server had under the key at some time.
ShownOnce ==
    \A h \in Hooks :
        result[h].data \in Data =>
            result[h].key \in Keys /\ result[h].data <= server[result[h].key]
BroughtOnce == \A c \in calls : c.data \in Data => c.data <= server[c.key]
NotAhead == ShownOnce /\ BroughtOnce

OneLive ==
    \A c, d \in calls : c.live /\ d.live /\ c.hook = d.hook => c = d

LiveIsNewer ==
    \A c \in calls :
        c.live /\ c.data \in Data /\ result[c.hook].key = c.key /\ result[c.hook].data \in Data
            => result[c.hook].data <= c.data

IInv == UseApiTypeOK /\ Answers /\ NotAhead /\ OneLive /\ LiveIsNewer

---------------------------------------------------------------------------

LEMMA InitIInv == UseApiInit => IInv
<1> SUFFICES ASSUME UseApiInit PROVE IInv
  OBVIOUS
<1> USE DEF UseApiInit
<1>1. UseApiTypeOK
  BY BoundsAssumption DEF UseApiTypeOK, Data, Blank
<1>2. Answers /\ OneLive /\ LiveIsNewer
  BY DEF Answers, OneLive, LiveIsNewer
<1>3. NotAhead
  BY Markers DEF NotAhead, ShownOnce, BroughtOnce, Blank
<1> QED
  BY <1>1, <1>2, <1>3 DEF IInv

\* What the cleanup leaves: the same requests, those of the hook no longer live.
LEMMA CleanedCalls ==
  ASSUME calls \subseteq Call, NEW h \in Hooks
  PROVE  /\ Cleaned(h) \subseteq Call
         /\ \A c \in Cleaned(h) : c.live => c \in calls /\ c.hook # h
         /\ \A c \in Cleaned(h) : \E d \in calls : c.data = d.data /\ c.error = d.error /\ c.key = d.key
<1>1. ASSUME NEW d \in calls
      PROVE  LET c == IF d.hook = h THEN [d EXCEPT !.live = FALSE] ELSE d
             IN /\ c \in Call /\ (c.live => c = d /\ c.hook # h)
                /\ c.data = d.data /\ c.error = d.error /\ c.key = d.key
  BY <1>1 DEF Call
<1> QED
  BY <1>1 DEF Cleaned

LEMMA StepIInv == IInv /\ [UseApiNext]_vars => IInv'
<1> SUFFICES ASSUME IInv, [UseApiNext]_vars PROVE IInv'
  OBVIOUS
<1> USE DEF IInv
<1>1. ASSUME NEW h \in Hooks, Effect(h) PROVE IInv'
  <2> USE <1>1 DEF Effect
  <2>0. Started(h) \in Call /\ Started(h).hook = h /\ Started(h).data = Waiting
        /\ Started(h).error = NoError /\ Started(h).live
    BY DEF Started, Call, UseApiTypeOK
  <2>1. UseApiTypeOK'
    BY <2>0, CleanedCalls DEF UseApiTypeOK
  <2>2. Answers'
    <3> SUFFICES ASSUME NEW c \in calls' PROVE c.error = NoError <=> c.data \in Data \cup {Waiting}
      BY DEF Answers, Waiting, Data
    <3>1. CASE c \in Cleaned(h)
      BY <3>1, CleanedCalls DEF Answers, UseApiTypeOK
    <3>2. CASE c = Started(h)
      BY <3>2, <2>0
    <3> QED
      BY <3>1, <3>2
  <2>3. NotAhead'
    BY <2>0, CleanedCalls, Markers DEF NotAhead, ShownOnce, BroughtOnce, UseApiTypeOK
  <2>4. OneLive'
    BY <2>0, CleanedCalls DEF OneLive, UseApiTypeOK
  <2>5. LiveIsNewer'
    BY <2>0, CleanedCalls, Markers DEF LiveIsNewer, UseApiTypeOK
  <2> QED
    BY <2>1, <2>2, <2>3, <2>4, <2>5
<1>2. ASSUME NEW h \in Hooks, Tick(h) PROVE IInv'
  BY <1>2 DEF Tick, UseApiTypeOK, Answers, NotAhead, ShownOnce, BroughtOnce, OneLive, LiveIsNewer
<1>3. ASSUME NEW h \in Hooks, Unmount(h) PROVE IInv'
  <2> USE <1>3 DEF Unmount
  <2>1. UseApiTypeOK'
    BY CleanedCalls, BoundsAssumption DEF UseApiTypeOK
  <2>2. Answers'
    BY CleanedCalls DEF Answers, UseApiTypeOK
  <2>3. NotAhead'
    BY CleanedCalls DEF NotAhead, ShownOnce, BroughtOnce, UseApiTypeOK
  <2>4. OneLive' /\ LiveIsNewer'
    BY CleanedCalls DEF OneLive, LiveIsNewer, UseApiTypeOK
  <2> QED
    BY <2>1, <2>2, <2>3, <2>4
<1>4. ASSUME NEW h \in Hooks, NEW k \in Keys, Mount(h, k) PROVE IInv'
  <2> USE <1>4 DEF Mount
  <2>0. result' = [result EXCEPT ![h] = Blank] /\ result \in [Hooks -> [key: Keys \cup {NoKey}, data: Data \cup {None}, error: Errors \cup {NoError}]]
    BY DEF UseApiTypeOK
  <2>1. UseApiTypeOK'
    BY <2>0, BoundsAssumption DEF UseApiTypeOK, Blank
  <2>2. Answers' /\ OneLive'
    BY DEF Answers, OneLive
  <2>3. \A g \in Hooks : result'[g].data \in Data => result'[g] = result[g]
    BY <2>0, Markers DEF Blank
  <2>4. NotAhead'
    BY <2>3 DEF NotAhead, ShownOnce, BroughtOnce
  <2>5. LiveIsNewer'
    BY <2>3 DEF LiveIsNewer, UseApiTypeOK, Call
  <2> QED
    BY <2>1, <2>2, <2>4, <2>5
<1>5. ASSUME NEW h \in Hooks, NEW k \in Keys, Rekey(h, k) PROVE IInv'
  BY <1>5, BoundsAssumption DEF Rekey, UseApiTypeOK, Answers, NotAhead, ShownOnce, BroughtOnce, OneLive, LiveIsNewer
<1>6. ASSUME NEW c \in calls, Answer(c) PROVE IInv'
  <2>a. UNCHANGED <<server, posts, told, mounted, polling, key, due, result, clicks>>
    BY <1>6 DEF Answer
  <2>0. PICK a \in Call :
          /\ calls' = (calls \ {c}) \cup {a}
          /\ a.hook = c.hook /\ a.key = c.key /\ a.live = c.live
          /\ \/ a.data = server[c.key] /\ a.data \in Data /\ a.error = NoError
             \/ a.data = None /\ a.error \in Errors
    <3>1. c \in Call /\ server[c.key] \in Data
      BY DEF UseApiTypeOK, Call
    <3>2. c.error = NoError
      BY <1>6 DEF Answer, Answers
    <3> DEFINE Good == [c EXCEPT !.data = server[c.key]]
               Bad(e) == [c EXCEPT !.data = None, !.error = e]
    <3>3. /\ Good \in Call /\ Good.hook = c.hook /\ Good.key = c.key /\ Good.live = c.live
          /\ Good.data = server[c.key] /\ Good.error = NoError
      BY <3>1, <3>2 DEF Call
    <3>4. ASSUME NEW e \in Errors
          PROVE  /\ Bad(e) \in Call /\ Bad(e).hook = c.hook /\ Bad(e).key = c.key
                 /\ Bad(e).live = c.live /\ Bad(e).data = None /\ Bad(e).error = e
      BY <3>1, <3>4 DEF Call
    <3>5. \/ calls' = (calls \ {c}) \cup {Good}
          \/ \E e \in Errors : calls' = (calls \ {c}) \cup {Bad(e)}
      BY <1>6 DEF Answer
    <3> HIDE DEF Good, Bad
    <3>6. CASE calls' = (calls \ {c}) \cup {Good}
      BY <3>1, <3>3, <3>6
    <3>7. CASE \E e \in Errors : calls' = (calls \ {c}) \cup {Bad(e)}
      BY <3>4, <3>7
    <3> QED
      BY <3>5, <3>6, <3>7
  <2>1. UseApiTypeOK'
    BY <2>a, <2>0 DEF UseApiTypeOK
  <2>b. \A d \in calls' : d \in calls \/ d = a
    BY <2>0
  <2>2. Answers'
    <3>1. a.error = NoError <=> a.data \in Data \cup {Waiting}
      BY <2>0, Markers, NullAssumption
    <3> QED
      BY <2>b, <3>1 DEF Answers, Data, Waiting
  <2>3. NotAhead'
    <3>1. a.data \in Data => a.data <= server[a.key]
      BY <2>0, Markers DEF Data
    <3> QED
      BY <2>a, <2>b, <3>1 DEF NotAhead, ShownOnce, BroughtOnce
  <2>4. OneLive'
    BY <2>0 DEF OneLive
  <2>5. LiveIsNewer'
    <3> SUFFICES ASSUME a.live, a.data \in Data, result[a.hook].key = a.key, result[a.hook].data \in Data
                 PROVE  result[a.hook].data <= a.data
      BY <2>a, <2>b DEF LiveIsNewer
    <3> QED
      BY <2>0, Markers DEF NotAhead, ShownOnce, Call
  <2> QED
    BY <2>1, <2>2, <2>3, <2>4, <2>5
<1>7. ASSUME NEW c \in calls, Settle(c) PROVE IInv'
  <2> USE <1>7 DEF Settle
  <2>0. c \in Call /\ result[c.hook] \in [key: Keys \cup {NoKey}, data: Data \cup {None}, error: Errors \cup {NoError}]
    BY DEF UseApiTypeOK, Call
  <2>1. Taken(c) \in [key: Keys \cup {NoKey}, data: Data \cup {None}, error: Errors \cup {NoError}]
    BY <2>0 DEF Taken, Kept, Answers, Call
  <2>2. UseApiTypeOK'
    BY <2>0, <2>1 DEF UseApiTypeOK, Call
  <2>3. Answers' /\ OneLive'
    BY DEF Answers, OneLive
  <2>4. \A g \in Hooks : result'[g] = result[g] \/ (c.live /\ g = c.hook /\ result'[g] = Taken(c))
    BY DEF UseApiTypeOK
  <2>5. NotAhead'
    <3>1. Taken(c).data \in Data => Taken(c).key \in Keys /\ Taken(c).data <= server[Taken(c).key]
      BY <2>0, Markers DEF Taken, Kept, NotAhead, ShownOnce, BroughtOnce, Call
    <3> QED
      BY <2>4, <3>1 DEF NotAhead, ShownOnce, BroughtOnce
  <2>6. LiveIsNewer'
    BY <2>4 DEF LiveIsNewer, OneLive, UseApiTypeOK, Call
  <2> QED
    BY <2>2, <2>3, <2>5, <2>6
<1>8. ASSUME NEW k \in Keys, Accept(k) PROVE IInv'
  <2> USE <1>8 DEF Accept
  <2>1. server' \in [Keys -> Data] /\ \A j \in Keys : server[j] \in Nat /\ server[j] <= server'[j]
    BY BoundsAssumption DEF UseApiTypeOK, Data
  <2>2. UseApiTypeOK'
    BY <2>1 DEF UseApiTypeOK
  <2>3. Answers' /\ OneLive' /\ LiveIsNewer'
    BY DEF Answers, OneLive, LiveIsNewer
  <2>4. NotAhead'
    BY <2>1 DEF NotAhead, ShownOnce, BroughtOnce, Data, UseApiTypeOK, Call
  <2> QED
    BY <2>2, <2>3, <2>4
<1>9. ASSUME NEW k \in Keys, Posted(k) PROVE IInv'
  BY <1>9 DEF Posted, Reloaded, UseApiTypeOK, Answers, NotAhead, ShownOnce, BroughtOnce, OneLive, LiveIsNewer
<1>10. CASE UNCHANGED vars
  BY <1>10 DEF vars, UseApiTypeOK, Answers, NotAhead, ShownOnce, BroughtOnce, OneLive, LiveIsNewer
<1> QED
  BY <1>1, <1>2, <1>3, <1>4, <1>5, <1>6, <1>7, <1>8, <1>9, <1>10 DEF UseApiNext

THEOREM HookInvariant == UseApiSpec => []IInv
  BY InitIInv, StepIInv, PTL DEF UseApiSpec

---------------------------------------------------------------------------

\* The result of a mounted hook that keeps its key changes only when its live request's
\* answer is taken.
LEMMA OnlySettleChanges ==
  ASSUME IInv, [UseApiNext]_vars, NEW h \in Hooks, Stays(h)
  PROVE  \/ result'[h] = result[h]
         \/ \E c \in calls : c.live /\ c.hook = h /\ c.data # Waiting /\ result'[h] = Taken(c)
<1> USE DEF IInv, UseApiTypeOK
<1>1. CASE \E g \in Hooks : Effect(g) \/ Tick(g) \/ Unmount(g)
  BY <1>1 DEF Effect, Tick, Unmount
<1>2. ASSUME NEW g \in Hooks, NEW k \in Keys, Mount(g, k) PROVE result'[h] = result[h]
  BY <1>2 DEF Mount, Stays
<1>3. CASE \E g \in Hooks, k \in Keys : Rekey(g, k)
  BY <1>3 DEF Rekey
<1>4. CASE \E c \in calls : Answer(c)
  BY <1>4 DEF Answer
<1>5. ASSUME NEW c \in calls, Settle(c)
      PROVE  result'[h] = result[h] \/ (c.live /\ c.hook = h /\ c.data # Waiting /\ result'[h] = Taken(c))
  BY <1>5 DEF Settle, Call
<1>6. CASE \E k \in Keys : Accept(k) \/ Posted(k)
  BY <1>6 DEF Accept, Posted
<1>7. CASE UNCHANGED vars
  BY <1>7 DEF vars
<1> QED
  BY <1>1, <1>2, <1>3, <1>4, <1>5, <1>6, <1>7 DEF UseApiNext

LEMMA StepNeverOlder ==
  ASSUME IInv, [UseApiNext]_vars, NEW h \in Hooks,
         Stays(h), Shown(h) # None, Shown(h)' # None
  PROVE  Shown(h)' >= Shown(h)
<1> USE DEF IInv
<1>1. result[h].key = key[h] /\ Shown(h) = result[h].data /\ Shown(h) \in Data
  BY Markers DEF Shown, Current, UseApiTypeOK
<1>2. key'[h] = key[h]
  BY DEF Stays
<1>3. result'[h].key = key[h] /\ Shown(h)' = result'[h].data
  BY <1>2 DEF Shown, Current
<1>4. CASE result'[h] = result[h]
  BY <1>1, <1>3, <1>4 DEF Data
<1>5. ASSUME NEW c \in calls, c.live, c.hook = h, c.data # Waiting, result'[h] = Taken(c)
      PROVE  Shown(h)' >= Shown(h)
  <2>1. c.key = result[h].key
    BY <1>1, <1>3, <1>5 DEF Taken
  <2>2. CASE c.error = NoError
    <3>1. c.data \in Data /\ result'[h].data = c.data
      BY <1>5, <2>2 DEF Answers, Taken
    <3> QED
      BY <1>1, <1>3, <1>5, <2>1, <3>1 DEF LiveIsNewer, Data
  <2>3. CASE c.error # NoError
    BY <1>1, <1>3, <1>5, <2>1, <2>3 DEF Taken, Kept, Data
  <2> QED
    BY <2>2, <2>3
<1> QED
  BY <1>4, <1>5, OnlySettleChanges

\* While a hook keeps its key it never goes back to an older answer (use-api.ts:37-52).
THEOREM HookNeverOlder == UseApiSpec => NeverOlder
<1>1. IInv /\ [UseApiNext]_vars =>
        [\A h \in Hooks : Stays(h) /\ Shown(h) # None /\ Shown(h)' # None => Shown(h)' >= Shown(h)]_vars
  BY StepNeverOlder
<1> QED
  BY <1>1, HookInvariant, PTL DEF UseApiSpec, NeverOlder

\* The types, of hooks of any number with any keys.
THEOREM HookTypeCorrect == UseApiSpec => []UseApiTypeOK
<1>1. IInv => UseApiTypeOK
  BY DEF IInv
<1> QED
  BY <1>1, HookInvariant, PTL

---------------------------------------------------------------------------
(* No reload is lost.  A hook whose effect is not due has a live request    *)
(* for its key, whose answer will have what the page was told of, or it has *)
(* taken such an answer, or an error, and nothing live is under way.        *)

Awaits(h) ==
    \E c \in calls : /\ c.live /\ c.hook = h /\ c.key = key[h]
                     /\ c.data \in Data => told[key[h]] <= c.data

UpToDate(h) ==
    /\ \A c \in calls : c.hook = h => ~c.live
    /\ result[h].key = key[h]
    /\ result[h].error = NoError => result[h].data \in Data /\ told[key[h]] <= result[h].data

ToldIsTrue == \A k \in Keys : told[k] <= server[k]
NothingMissed == \A h \in mounted \ due : Awaits(h) \/ UpToDate(h)

WInv == IInv /\ ToldIsTrue /\ NothingMissed

LEMMA InitWInv == UseApiInit => WInv
<1> SUFFICES ASSUME UseApiInit PROVE WInv
  OBVIOUS
<1>1. ToldIsTrue /\ NothingMissed
  BY DEF UseApiInit, ToldIsTrue, NothingMissed
<1> QED
  BY <1>1, InitIInv DEF WInv

\* The requests and the result of a hook stay as they are.
LEMMA OthersStay ==
  ASSUME NEW h \in mounted, Awaits(h) \/ UpToDate(h),
         key'[h] = key[h], told' = told, result'[h] = result[h],
         \A c \in calls : c.hook = h => c \in calls',
         \A c \in calls' : c.hook = h => c \in calls
  PROVE  (Awaits(h) \/ UpToDate(h))'
BY DEF Awaits, UpToDate

LEMMA StepWInv == WInv /\ [UseApiNext]_vars => WInv'
<1> SUFFICES ASSUME WInv, [UseApiNext]_vars PROVE ToldIsTrue' /\ NothingMissed'
  BY StepIInv DEF WInv
<1>0. IInv /\ UseApiTypeOK /\ ToldIsTrue /\ NothingMissed
  BY DEF WInv, IInv
<1>1. ASSUME NEW h \in Hooks, Effect(h) PROVE ToldIsTrue' /\ NothingMissed'
  <2>0. /\ calls' = Cleaned(h) \cup {Started(h)} /\ due' = due \ {h}
        /\ UNCHANGED <<server, told, mounted, key, result>>
    BY <1>1 DEF Effect
  <2>1. (Awaits(h))'
    <3>1. /\ Started(h) \in calls' /\ Started(h).live /\ Started(h).hook = h
          /\ Started(h).key = key'[h] /\ Started(h).data \notin Data
      BY <2>0, Markers DEF Started
    <3>2. \E c \in calls' : c.live /\ c.hook = h /\ c.key = key'[h] /\ c.data \notin Data
      BY <3>1
    <3>3. Data' = Data
      BY DEF Data
    <3> QED
      BY <3>2, <3>3 DEF Awaits
  <2>2. ASSUME NEW g \in mounted \ due, g # h PROVE (Awaits(g) \/ UpToDate(g))'
    <3>1. \A c \in calls : c.hook = g => c \in calls'
      BY <2>0, <2>2 DEF Cleaned
    <3>2. \A c \in calls' : c.hook = g => c \in calls
      BY <1>0, <2>0, <2>2 DEF Cleaned, Started, UseApiTypeOK, Call
    <3> QED
      BY <1>0, <2>0, <2>2, <3>1, <3>2, OthersStay DEF NothingMissed
  <2> QED
    BY <1>0, <2>0, <2>1, <2>2 DEF NothingMissed, ToldIsTrue
<1>2. ASSUME NEW h \in Hooks, Tick(h) PROVE ToldIsTrue' /\ NothingMissed'
  BY <1>0, <1>2 DEF Tick, ToldIsTrue, NothingMissed, Awaits, UpToDate
<1>3. ASSUME NEW h \in Hooks, Unmount(h) PROVE ToldIsTrue' /\ NothingMissed'
  <2>0. /\ calls' = Cleaned(h) /\ mounted' = mounted \ {h}
        /\ UNCHANGED <<server, told, due, key, result>>
    BY <1>3 DEF Unmount
  <2>1. ASSUME NEW g \in mounted \ due, g # h PROVE (Awaits(g) \/ UpToDate(g))'
    <3>1. \A c \in calls : c.hook = g => c \in calls'
      BY <2>0, <2>1 DEF Cleaned
    <3>2. \A c \in calls' : c.hook = g => c \in calls
      BY <1>0, <2>0, <2>1 DEF Cleaned, UseApiTypeOK, Call
    <3> QED
      BY <1>0, <2>0, <2>1, <3>1, <3>2, OthersStay DEF NothingMissed
  <2> QED
    BY <1>0, <2>0, <2>1 DEF NothingMissed, ToldIsTrue
<1>4. ASSUME NEW h \in Hooks, NEW k \in Keys, Mount(h, k) \/ Rekey(h, k)
      PROVE  ToldIsTrue' /\ NothingMissed'
  <2>0. /\ due' = due \cup {h} /\ mounted' \subseteq mounted \cup {h}
        /\ UNCHANGED <<server, told, calls>>
        /\ \A g \in Hooks \ {h} : key'[g] = key[g] /\ result'[g] = result[g]
    BY <1>0, <1>4 DEF Mount, Rekey, UseApiTypeOK
  <2>1. ASSUME NEW g \in mounted' \ due' PROVE (Awaits(g) \/ UpToDate(g))'
    BY <1>0, <2>0, <2>1, OthersStay DEF NothingMissed, UseApiTypeOK
  <2> QED
    BY <1>0, <2>0, <2>1 DEF NothingMissed, ToldIsTrue
<1>5. ASSUME NEW c \in calls, Answer(c) PROVE ToldIsTrue' /\ NothingMissed'
  <2>0. UNCHANGED <<server, told, mounted, due, key, result>> /\ c \in Call
    BY <1>0, <1>5 DEF Answer, UseApiTypeOK
  <2>1. PICK a : /\ calls' = (calls \ {c}) \cup {a}
                 /\ a.hook = c.hook /\ a.key = c.key /\ a.live = c.live
                 /\ a.data = server[c.key] \/ a.data = None
    <3>1. CASE calls' = (calls \ {c}) \cup {[c EXCEPT !.data = server[c.key]]}
      <4> DEFINE Good == [c EXCEPT !.data = server[c.key]]
      <4>1. Good.hook = c.hook /\ Good.key = c.key /\ Good.live = c.live /\ Good.data = server[c.key]
        BY <2>0 DEF Call
      <4> QED
        BY <3>1, <4>1
    <3>2. ASSUME NEW e \in Errors, calls' = (calls \ {c}) \cup {[c EXCEPT !.data = None, !.error = e]}
          PROVE  \E a : /\ calls' = (calls \ {c}) \cup {a}
                        /\ a.hook = c.hook /\ a.key = c.key /\ a.live = c.live
                        /\ a.data = server[c.key] \/ a.data = None
      <4> DEFINE Bad == [c EXCEPT !.data = None, !.error = e]
      <4>1. Bad.hook = c.hook /\ Bad.key = c.key /\ Bad.live = c.live /\ Bad.data = None
        BY <2>0 DEF Call
      <4> QED
        BY <3>2, <4>1
    <3> QED
      BY <1>5, <3>1, <3>2 DEF Answer
  <2>2. ASSUME NEW g \in mounted \ due PROVE (Awaits(g) \/ UpToDate(g))'
    <3>1. CASE UpToDate(g)
      BY <2>0, <2>1, <2>2, <3>1 DEF UpToDate
    <3>2. CASE Awaits(g)
      <4>1. PICK d \in calls : /\ d.live /\ d.hook = g /\ d.key = key[g]
                               /\ d.data \in Data => told[key[g]] <= d.data
        BY <3>2 DEF Awaits
      <4>2. CASE d # c
        BY <2>0, <2>1, <4>1, <4>2 DEF Awaits
      <4>3. CASE d = c
        <5>1. a.data \in Data => told[key[g]] <= a.data
          BY <1>0, <2>0, <2>1, <4>1, <4>3, Markers DEF ToldIsTrue, Call
        <5> QED
          BY <2>0, <2>1, <4>1, <4>3, <5>1 DEF Awaits
      <4> QED
        BY <4>2, <4>3
    <3> QED
      BY <1>0, <2>2, <3>1, <3>2 DEF NothingMissed
  <2> QED
    BY <1>0, <2>0, <2>2 DEF NothingMissed, ToldIsTrue
<1>6. ASSUME NEW c \in calls, Settle(c) PROVE ToldIsTrue' /\ NothingMissed'
  <2>0. /\ UNCHANGED <<server, told, mounted, due, key>> /\ c \in Call
        /\ c.data # Waiting /\ calls' = calls \ {c}
        /\ result' = IF c.live THEN [result EXCEPT ![c.hook] = Taken(c)] ELSE result
        /\ c.hook \in Hooks /\ result \in [Hooks -> [key: Keys \cup {NoKey}, data: Data \cup {None}, error: Errors \cup {NoError}]]
    BY <1>0, <1>6 DEF Settle, UseApiTypeOK, Call
  <2>1. ASSUME NEW g \in mounted \ due PROVE (Awaits(g) \/ UpToDate(g))'
    <3>0. g \in Hooks /\ (Awaits(g) \/ UpToDate(g))
      BY <1>0, <2>1 DEF NothingMissed, UseApiTypeOK
    <3>1. CASE UpToDate(g)
      <4>1. result'[g] = result[g]
        BY <2>0, <3>0, <3>1 DEF UpToDate
      <4> QED
        BY <2>0, <3>1, <4>1 DEF UpToDate
    <3>2. CASE Awaits(g)
      <4>1. PICK d \in calls : /\ d.live /\ d.hook = g /\ d.key = key[g]
                               /\ d.data \in Data => told[key[g]] <= d.data
        BY <3>2 DEF Awaits
      <4>2. CASE d # c
        BY <2>0, <4>1, <4>2 DEF Awaits
      <4>3. CASE d = c
        <5>1. result'[g] = Taken(c)
          BY <2>0, <3>0, <4>1, <4>3
        <5>2. \A b \in calls' : b.hook = g => ~b.live
          BY <1>0, <2>0, <4>1, <4>3 DEF IInv, OneLive
        <5>3. c.error = NoError => c.data \in Data
          BY <1>0, <2>0 DEF IInv, Answers
        <5> QED
          BY <2>0, <4>1, <4>3, <5>1, <5>2, <5>3 DEF UpToDate, Taken
      <4> QED
        BY <4>2, <4>3
    <3> QED
      BY <3>0, <3>1, <3>2
  <2> QED
    BY <1>0, <2>0, <2>1 DEF NothingMissed, ToldIsTrue
<1>7. ASSUME NEW k \in Keys, Accept(k) PROVE ToldIsTrue' /\ NothingMissed'
  <2>1. /\ UNCHANGED <<told, mounted, key, due, calls, result>>
        /\ \A j \in Keys : server[j] \in Nat /\ told[j] \in Nat /\ server[j] <= server'[j]
    BY <1>0, <1>7, BoundsAssumption DEF Accept, UseApiTypeOK, Data
  <2>2. ToldIsTrue'
    BY <1>0, <1>7, <2>1 DEF ToldIsTrue, Accept, UseApiTypeOK, Data
  <2>3. NothingMissed'
    BY <1>0, <2>1 DEF NothingMissed, Awaits, UpToDate
  <2> QED
    BY <2>2, <2>3
<1>8. ASSUME NEW k \in Keys, Posted(k) PROVE ToldIsTrue' /\ NothingMissed'
  <2>1. mounted' \ due' = {}
    BY <1>8 DEF Posted, Reloaded
  <2>2. ToldIsTrue'
    BY <1>0, <1>8 DEF Posted, ToldIsTrue, UseApiTypeOK, Data
  <2> QED
    BY <2>1, <2>2 DEF NothingMissed
<1>9. CASE UNCHANGED vars
  BY <1>0, <1>9 DEF vars, ToldIsTrue, NothingMissed, Awaits, UpToDate
<1> QED
  BY <1>1, <1>2, <1>3, <1>4, <1>5, <1>6, <1>7, <1>8, <1>9 DEF UseApiNext

\* What a page was told of, its quiet hooks show (decisions.tsx:138-142, use-api.ts:62).
THEOREM HookShowsWrites == UseApiSpec => []QuietShowsWrites
<1>1. WInv => QuietShowsWrites
  <2> SUFFICES ASSUME WInv, NEW h \in mounted \ due,
                      \A c \in Of(h) : ~c.live, ShownError(h) = NoError
               PROVE  Shown(h) # None /\ Shown(h) >= told[key[h]]
    BY DEF QuietShowsWrites
  <2>1. UpToDate(h)
    BY DEF WInv, NothingMissed, Awaits, Of
  <2>2. result[h].data \in Data /\ told[key[h]] <= result[h].data /\ Shown(h) = result[h].data
    BY <2>1 DEF UpToDate, Shown, ShownError, Current
  <2>3. told[key[h]] \in Nat
    BY DEF WInv, IInv, UseApiTypeOK, Data
  <2> QED
    BY <2>2, <2>3, Markers DEF Data
<1> QED
  BY <1>1, InitWInv, StepWInv, PTL DEF UseApiSpec
=============================================================================
