--------------------------- MODULE Pairing_proofs ---------------------------
(***************************************************************************)
(* Theorems about Pairing for any number of devices, codes, phones, calls  *)
(* under way, restarts of the server and relaunches of the phones.         *)
(***************************************************************************)
EXTENDS Pairing, TLAPS

Ats == {"sent", "redeemed", "touching", "matched", "ok", "401", "refused", "lost"}

\* What a call carries and brings back fits its kind.
CallOK(c) ==
  /\ c \in Call
  /\ c.kind = "pair" => c.sends \in Codes /\ (c.at = "ok" => c.gets \in Devices)
  /\ c.kind = "login" => c.sends \in Devices /\ (c.at = "ok" => c.gets \in Cookies)
  /\ c.kind = "probe" => c.sends \in Cookies \cup {None}
  /\ c.at = "redeemed" => c.kind = "pair"
  /\ c.at \in {"touching", "matched"} => c.kind = "login"

CallsInv ==
  /\ calls \in [Calls -> Call \cup {None}]
  /\ \A k \in Calls : calls[k] # None => CallOK(calls[k])

\* The client that made a call still has its cookie jar.
JarsInv ==
  /\ jars \in [Phones -> Seq(Cookies \cup {None})]
  /\ \A p \in Phones : Len(jars[p]) >= 1
  /\ \A k \in Calls :
       calls[k] # None => calls[k].client \in 1 .. Len(jars[calls[k].phone])

ServerType ==
  /\ code \in Codes \cup {None}
  /\ wrong \in 0 .. Attempts - 1
  /\ issued \subseteq Codes
  /\ file \subseteq Devices
  /\ origin \in [Devices -> Codes \cup {None}]
  /\ revoked \subseteq Devices
  /\ touch = None \/ touch \in [call : Calls, loaded : SUBSET Devices]
  /\ life \in 1 .. Lives
  /\ sessions \subseteq Cookies

PhoneType ==
  /\ state \in [Phones -> {"unpaired", "pairing", "paired"}]
  /\ device \in [Phones -> Devices \cup {None}]
  /\ keychain \in [Phones -> Devices \cup {None}]
  /\ phase \in [Phones -> {"idle", "connecting", "connected", "offline"}]
  /\ cookie \in [Phones -> Cookies \cup {None}]

\* The lock is held by the call that moves last_seen.
TouchInv == \A k \in Calls : Is(k, "login", "touching") => touch # None /\ touch.call = k

\* A code in use, redeemed or paired is an issued one, and is only one of these,
\* once.
Redeemed(k) == Is(k, "pair", "redeemed")
CodesInv ==
  /\ \A d \in Devices : origin[d] # None => origin[d] \in issued
  /\ code # None => code \in issued /\ \A d \in Devices : origin[d] # code
  /\ \A k \in Calls : Redeemed(k) =>
       /\ calls[k].sends \in issued
       /\ calls[k].sends # code
       /\ \A d \in Devices : origin[d] # calls[k].sends
  /\ \A j, k \in Calls :
       Redeemed(j) /\ Redeemed(k) /\ calls[j].sends = calls[k].sends => j = k
  /\ CodePairsOnce

\* Neither the file nor the list about to be written back has a revoked device,
\* or one that was never made.
Made == {d \in Devices : origin[d] # None}
RevokedInv ==
  /\ file \cup revoked \subseteq Made
  /\ RevokedStaysOut
  /\ touch # None => touch.loaded \subseteq Made \ revoked

\* While a phone waits for a pairing it is not paired, and it waits for one only.
PhonesInv ==
  /\ ShowsKeychain
  /\ \A k \in Calls : calls[k] # None /\ calls[k].kind = "pair" =>
       state[calls[k].phone] # "paired"
  /\ \A j, k \in Calls :
       /\ calls[j] # None /\ calls[j].kind = "pair"
       /\ calls[k] # None /\ calls[k].kind = "pair"
       /\ calls[j].phone = calls[k].phone
       => j = k

PairingInv ==
  /\ ServerType /\ PhoneType /\ CallsInv /\ JarsInv
  /\ TouchInv /\ CodesInv /\ RevokedInv /\ PhonesInv

-----------------------------------------------------------------------------
(* How calls change.                                                       *)

LEMMA CallFields ==
  ASSUME CallsInv, NEW k \in Calls, calls[k] # None
  PROVE  /\ calls[k] \in Call /\ CallOK(calls[k])
         /\ calls[k].phone \in Phones
         /\ calls[k].kind \in {"pair", "login", "probe"}
         /\ calls[k].client \in Nat \ {0}
         /\ calls[k].sends \in Codes \cup Devices \cup Cookies \cup {None}
         /\ calls[k].gets \in Devices \cup Cookies \cup {None}
         /\ calls[k].at \in Ats
  BY DEF CallsInv, CallOK, Call, Ats

\* An answer changes where one call is and what it brings back.
Answered(k, at, gets) ==
  /\ \A j \in Calls \ {k} : calls'[j] = calls[j]
  /\ calls' \in [Calls -> Call \cup {None}]
  /\ calls'[k] \in Call
  /\ calls'[k].at = at /\ calls'[k].gets = gets
  /\ calls'[k].phone = calls[k].phone /\ calls'[k].kind = calls[k].kind
  /\ calls'[k].client = calls[k].client /\ calls'[k].sends = calls[k].sends
  /\ calls'[k].tick = calls[k].tick

LEMMA AnswerAnswers ==
  ASSUME CallsInv, NEW k \in Calls, calls[k] # None, NEW at \in Ats,
         NEW gets \in Devices \cup Cookies \cup {None}, Answer(k, at, gets)
  PROVE  Answered(k, at, gets)
<1> DEFINE c == [calls[k] EXCEPT !.at = at, !.gets = gets]
<1>1. calls[k] \in Call
  BY CallFields
<1>2. /\ c \in Call /\ c.at = at /\ c.gets = gets
      /\ c.phone = calls[k].phone /\ c.kind = calls[k].kind
      /\ c.client = calls[k].client /\ c.sends = calls[k].sends
      /\ c.tick = calls[k].tick
  BY <1>1 DEF Call, Ats
<1>3. calls' = [calls EXCEPT ![k] = c]
  BY DEF Answer, CallsInv
<1> HIDE DEF c
<1> QED
  BY <1>2, <1>3 DEF CallsInv, Answered

\* An answer that fits the call's kind and makes it neither redeemed nor the
\* holder of the lock leaves the invariants about calls and phones alone.
LEMMA AnswerKeeps ==
  ASSUME PairingInv, NEW k \in Calls, calls[k] # None,
         NEW at \in Ats \ {"redeemed", "touching"},
         NEW gets \in Devices \cup Cookies \cup {None}, Answer(k, at, gets),
         at = "ok" /\ calls[k].kind = "pair" => gets \in Devices,
         at = "ok" /\ calls[k].kind = "login" => gets \in Cookies,
         at = "matched" => calls[k].kind = "login",
         UNCHANGED phone
  PROVE  /\ CallsInv' /\ JarsInv' /\ PhoneType' /\ PhonesInv'
         /\ \A j \in Calls : Redeemed(j)' => j # k /\ Redeemed(j) /\ calls'[j] = calls[j]
         /\ \A j \in Calls : Is(j, "login", "touching")' =>
              j # k /\ Is(j, "login", "touching")
<1>1. Answered(k, at, gets)
  BY AnswerAnswers DEF PairingInv
<1>2. CallOK(calls[k])
  BY DEF PairingInv, CallsInv
<1>3. CallOK(calls'[k])
  BY <1>1, <1>2 DEF Answered, CallOK, Ats
<1>4. CallsInv'
  BY <1>1, <1>3 DEF Answered, PairingInv, CallsInv
<1>5. JarsInv'
  BY <1>1 DEF Answered, PairingInv, JarsInv, phone
<1>6. PhoneType'
  BY DEF PairingInv, PhoneType, phone
<1>7. PhonesInv'
  BY <1>1 DEF Answered, PairingInv, PhonesInv, ShowsKeychain, phone
<1>8. \A j \in Calls : Redeemed(j)' => j # k /\ Redeemed(j) /\ calls'[j] = calls[j]
  BY <1>1 DEF Answered, Redeemed, Is
<1>9. \A j \in Calls : Is(j, "login", "touching")' => j # k /\ Is(j, "login", "touching")
  BY <1>1 DEF Answered, Is
<1> QED
  BY <1>4, <1>5, <1>6, <1>7, <1>8, <1>9

-----------------------------------------------------------------------------
(* The server's steps.                                                     *)

\* Nothing the registry keeps changes, and no call is redeemed or takes the lock.
LEMMA RegistryStill ==
  ASSUME PairingInv, UNCHANGED <<codes, registry>>,
         \A j \in Calls : Redeemed(j)' => Redeemed(j) /\ calls'[j] = calls[j],
         \A j \in Calls : Is(j, "login", "touching")' => Is(j, "login", "touching")
  PROVE  TouchInv' /\ CodesInv' /\ RevokedInv'
<1> USE DEF PairingInv, codes, registry
<1>1. TouchInv'
  BY DEF TouchInv
<1>2. CodesInv'
  BY DEF CodesInv, CodePairsOnce
<1>3. RevokedInv'
  BY DEF RevokedInv, RevokedStaysOut, Made
<1> QED
  BY <1>1, <1>2, <1>3

LEMMA RedeemInv ==
  ASSUME PairingInv, NEW k \in Calls, Redeem(k)
  PROVE  PairingInv'
<1> DEFINE accepted == code # None /\ calls[k].sends = code
<1>0. /\ calls[k] # None /\ calls[k].kind = "pair" /\ calls[k].at = "sent"
      /\ Consume(accepted) /\ UNCHANGED <<issued, registry, session, phone>>
      /\ Answer(k, IF accepted THEN "redeemed" ELSE "refused", None)
  BY DEF Redeem, Is
<1>1. code' \in {code, None} /\ (accepted => code' = None)
      /\ wrong' \in 0 .. Attempts - 1
  <2>1. wrong \in 0 .. Attempts - 1 /\ Attempts \in Nat \ {0}
    BY PairingAssumption DEF PairingInv, ServerType
  <2>2. CASE accepted \/ code = None \/ wrong + 1 >= Attempts
    BY <1>0, <2>1, <2>2 DEF Consume
  <2>3. CASE ~(accepted \/ code = None \/ wrong + 1 >= Attempts)
    BY <1>0, <2>1, <2>3 DEF Consume
  <2> QED
    BY <2>2, <2>3
<1>2. CallOK(calls[k])
  BY <1>0 DEF PairingInv, CallsInv
<1>3. ServerType'
  BY <1>0, <1>1 DEF PairingInv, ServerType, registry, session
<1>4. CASE accepted
  <2>1. Answered(k, "redeemed", None)
    BY <1>0, <1>4, AnswerAnswers DEF PairingInv, Ats
  <2>2. CallOK(calls'[k])
    BY <2>1, <1>0, <1>2 DEF Answered, CallOK
  <2>3. CallsInv' /\ JarsInv'
    BY <2>1, <2>2, <1>0 DEF Answered, PairingInv, CallsInv, JarsInv, phone
  <2>4. PhoneType' /\ PhonesInv'
    BY <2>1, <1>0 DEF Answered, PairingInv, PhoneType, PhonesInv, ShowsKeychain, phone
  <2>5. TouchInv'
    BY <2>1, <1>0 DEF Answered, PairingInv, TouchInv, Is, registry
  <2>6. RevokedInv'
    BY <1>0 DEF PairingInv, RevokedInv, RevokedStaysOut, Made, registry
  <2>7. CodesInv'
    <3>1. /\ code \in issued /\ code # None /\ \A d \in Devices : origin[d] # code
          /\ calls'[k].sends = code /\ code' = None
      BY <1>1, <1>4, <2>1 DEF Answered, PairingInv, CodesInv
    <3>2. \A j \in Calls : Redeemed(j)' =>
            j = k \/ (Redeemed(j) /\ calls'[j] = calls[j] /\ calls'[j].sends # code)
      BY <2>1 DEF Answered, Redeemed, Is, PairingInv, CodesInv
    <3>3. \A j \in Calls : Redeemed(j) => calls[j].sends # None
      BY PairingAssumption DEF Redeemed, Is, PairingInv, CallsInv, CallOK
    <3>4. UNCHANGED <<issued, origin>>
      BY <1>0 DEF registry
    <3> QED
      BY <3>1, <3>2, <3>3, <3>4 DEF PairingInv, CodesInv, CodePairsOnce
  <2> QED
    BY <1>3, <2>3, <2>4, <2>5, <2>6, <2>7 DEF PairingInv
<1>5. CASE ~accepted
  <2>1. /\ CallsInv' /\ JarsInv' /\ PhoneType' /\ PhonesInv'
        /\ \A j \in Calls : Redeemed(j)' => j # k /\ Redeemed(j) /\ calls'[j] = calls[j]
        /\ \A j \in Calls : Is(j, "login", "touching")' =>
             j # k /\ Is(j, "login", "touching")
    BY <1>0, <1>5, AnswerKeeps DEF Ats
  <2>2. TouchInv'
    BY <2>1, <1>0 DEF PairingInv, TouchInv, registry
  <2>3. RevokedInv'
    BY <1>0 DEF PairingInv, RevokedInv, RevokedStaysOut, Made, registry
  <2>4. CodesInv'
    <3>1. \A j \in Calls : Redeemed(j) => calls[j].sends # None
      BY PairingAssumption DEF Redeemed, Is, PairingInv, CallsInv, CallOK
    <3>2. UNCHANGED <<issued, origin>>
      BY <1>0 DEF registry
    <3> QED
      BY <1>1, <2>1, <3>1, <3>2 DEF PairingInv, CodesInv, CodePairsOnce
  <2> QED
    BY <1>3, <2>1, <2>2, <2>3, <2>4 DEF PairingInv
<1> QED
  BY <1>4, <1>5

\* The redeemed code makes one device, and no other can be made from it.
LEMMA EnrollInv ==
  ASSUME PairingInv, NEW k \in Calls, NEW d \in Devices, Enroll(k, d)
  PROVE  PairingInv'
<1> DEFINE c == calls[k].sends
<1>0. /\ Redeemed(k) /\ calls[k] # None /\ calls[k].kind = "pair"
      /\ touch = None /\ origin[d] = None
      /\ file' = file \cup {d} /\ origin' = [origin EXCEPT ![d] = c]
      /\ Answer(k, "ok", d) /\ UNCHANGED <<codes, revoked, touch, session, phone>>
  BY DEF Enroll, Is, Redeemed, Unlocked
<1>1. c \in Codes /\ c \in issued /\ c # code /\ \A e \in Devices : origin[e] # c
  BY <1>0 DEF PairingInv, CallsInv, CallOK, CodesInv
<1>2. /\ CallsInv' /\ JarsInv' /\ PhoneType' /\ PhonesInv'
      /\ \A j \in Calls : Redeemed(j)' => j # k /\ Redeemed(j) /\ calls'[j] = calls[j]
      /\ \A j \in Calls : Is(j, "login", "touching")' =>
           j # k /\ Is(j, "login", "touching")
  BY <1>0, AnswerKeeps DEF Ats
<1> HIDE DEF c
<1>3. /\ origin' \in [Devices -> Codes \cup {None}]
      /\ origin'[d] = c /\ \A e \in Devices \ {d} : origin'[e] = origin[e]
  BY <1>0, <1>1 DEF PairingInv, ServerType
<1>4. ServerType'
  BY <1>0, <1>3 DEF PairingInv, ServerType, codes, session
<1>5. TouchInv'
  BY <1>0, <1>2 DEF PairingInv, TouchInv
<1>6. RevokedInv'
  <2>1. d \notin revoked
    BY <1>0 DEF PairingInv, RevokedInv, Made
  <2>2. c # None
    BY <1>1, PairingAssumption
  <2> QED
    BY <1>0, <1>3, <2>1, <2>2 DEF PairingInv, RevokedInv, RevokedStaysOut, Made
<1>7. CodesInv'
  <2>1. \A j \in Calls : Redeemed(j)' => calls'[j].sends # c
    BY <1>0, <1>2 DEF PairingInv, CodesInv, c
  <2>2. UNCHANGED <<code, issued>>
    BY <1>0 DEF codes
  <2> QED
    BY <1>0, <1>1, <1>2, <1>3, <2>1, <2>2 DEF PairingInv, CodesInv, CodePairsOnce
<1> QED
  BY <1>2, <1>4, <1>5, <1>6, <1>7 DEF PairingInv

\* The answers that leave the registry as it is.
LEMMA AnswerInv ==
  ASSUME PairingInv, NEW k \in Calls, calls[k] # None,
         NEW at \in Ats \ {"redeemed", "touching"},
         NEW gets \in Devices \cup Cookies \cup {None}, Answer(k, at, gets),
         at = "ok" /\ calls[k].kind = "pair" => gets \in Devices,
         at = "ok" /\ calls[k].kind = "login" => gets \in Cookies,
         at = "matched" => calls[k].kind = "login",
         UNCHANGED <<codes, registry, life, phone>>, sessions' \subseteq Cookies
  PROVE  PairingInv'
<1>1. /\ CallsInv' /\ JarsInv' /\ PhoneType' /\ PhonesInv'
      /\ \A j \in Calls : Redeemed(j)' => j # k /\ Redeemed(j) /\ calls'[j] = calls[j]
      /\ \A j \in Calls : Is(j, "login", "touching")' =>
           j # k /\ Is(j, "login", "touching")
  BY AnswerKeeps
<1>2. TouchInv' /\ CodesInv' /\ RevokedInv'
  BY <1>1, RegistryStill
<1>3. ServerType'
  BY DEF PairingInv, ServerType, codes, registry
<1> QED
  BY <1>1, <1>2, <1>3 DEF PairingInv

LEMMA MatchInv ==
  ASSUME PairingInv, NEW k \in Calls, NEW due \in BOOLEAN, Match(k, due)
  PROVE  PairingInv'
<1>0. /\ calls[k] # None /\ calls[k].kind = "login" /\ touch = None
      /\ UNCHANGED <<codes, file, origin, revoked, session, phone>>
  BY DEF Match, Is, Unlocked
<1>1. CASE due /\ calls[k].sends \in file
  <2>1. touch' = [call |-> k, loaded |-> file] /\ Answer(k, "touching", None)
    BY <1>1 DEF Match
  <2>2. Answered(k, "touching", None) /\ CallOK(calls[k])
    BY <1>0, <2>1, AnswerAnswers DEF PairingInv, CallsInv, Ats
  <2>3. CallOK(calls'[k])
    BY <1>0, <2>2 DEF Answered, CallOK
  <2>4. CallsInv' /\ JarsInv'
    BY <1>0, <2>2, <2>3 DEF Answered, PairingInv, CallsInv, JarsInv, phone
  <2>5. PhoneType' /\ PhonesInv'
    BY <1>0, <2>2 DEF Answered, PairingInv, PhoneType, PhonesInv, ShowsKeychain, phone
  <2>6. touch' # None /\ touch' \in [call : Calls, loaded : SUBSET Devices]
    BY <2>1, PairingAssumption DEF PairingInv, ServerType
  <2>7. TouchInv'
    <3>1. \A j \in Calls : Is(j, "login", "touching")' => j = k
      BY <1>0, <2>2 DEF Answered, Is, PairingInv, TouchInv
    <3> QED
      BY <2>1, <2>6, <3>1 DEF TouchInv
  <2>8. RevokedInv'
    BY <1>0, <2>1 DEF PairingInv, RevokedInv, RevokedStaysOut, Made
  <2>9. CodesInv'
    <3>1. \A j \in Calls : Redeemed(j)' => Redeemed(j) /\ calls'[j] = calls[j]
      BY <2>2 DEF Answered, Redeemed, Is
    <3> QED
      BY <1>0, <3>1 DEF PairingInv, CodesInv, CodePairsOnce, codes
  <2>10. ServerType'
    BY <1>0, <2>6 DEF PairingInv, ServerType, codes, session
  <2> QED
    BY <2>4, <2>5, <2>7, <2>8, <2>9, <2>10 DEF PairingInv
<1>2. CASE ~(due /\ calls[k].sends \in file)
  <2>1. touch' = touch
    BY <1>2 DEF Match
  <2>2. PICK at \in {"401", "matched"} : Answer(k, at, None)
    BY <1>2 DEF Match
  <2>3. sessions' \subseteq Cookies
    BY <1>0 DEF PairingInv, ServerType, session
  <2> QED
    BY <1>0, <2>1, <2>2, <2>3, AnswerInv DEF Ats, registry, session
<1> QED
  BY <1>1, <1>2

\* What was loaded under the lock is what the file still holds.
LEMMA TouchInvariant ==
  ASSUME PairingInv, NEW k \in Calls, Touch(k)
  PROVE  PairingInv'
<1>0. /\ calls[k] # None /\ calls[k].kind = "login"
      /\ Is(k, "login", "touching") /\ touch # None
      /\ file' = touch.loaded /\ touch' = None
      /\ Answer(k, "matched", None)
      /\ UNCHANGED <<codes, origin, revoked, session, phone>>
  BY DEF Touch, Is, PairingInv, TouchInv
<1>1. /\ CallsInv' /\ JarsInv' /\ PhoneType' /\ PhonesInv'
      /\ \A j \in Calls : Redeemed(j)' => j # k /\ Redeemed(j) /\ calls'[j] = calls[j]
      /\ \A j \in Calls : Is(j, "login", "touching")' =>
           j # k /\ Is(j, "login", "touching")
  BY <1>0, AnswerKeeps DEF Ats
<1>2. touch.loaded \subseteq Made \ revoked /\ touch.loaded \subseteq Devices
  BY <1>0 DEF PairingInv, RevokedInv, ServerType
<1>3. ServerType'
  BY <1>0, <1>2 DEF PairingInv, ServerType, codes, session
<1>4. RevokedInv'
  BY <1>0, <1>2 DEF PairingInv, RevokedInv, RevokedStaysOut, Made
<1>5. CodesInv'
  BY <1>0, <1>1 DEF PairingInv, CodesInv, CodePairsOnce, codes
<1>6. TouchInv'
  <2>1. \A j \in Calls : ~Is(j, "login", "touching")'
    BY <1>0, <1>1 DEF PairingInv, TouchInv
  <2> QED
    BY <2>1 DEF TouchInv
<1> QED
  BY <1>1, <1>3, <1>4, <1>5, <1>6 DEF PairingInv

LEMMA StartSessionInv ==
  ASSUME PairingInv, NEW k \in Calls, StartSession(k)
  PROVE  PairingInv'
<1> DEFINE new == [device |-> calls[k].sends, life |-> life]
<1>1. /\ calls[k] # None /\ calls[k].kind = "login"
      /\ sessions' = sessions \cup {new} /\ Answer(k, "ok", new)
      /\ UNCHANGED <<codes, registry, life, phone>>
  BY DEF StartSession, Is
<1>2. new \in Cookies
  BY <1>1 DEF PairingInv, CallsInv, CallOK, ServerType, Cookies
<1> HIDE DEF new
<1>3. sessions' \subseteq Cookies
  BY <1>1, <1>2 DEF PairingInv, ServerType
<1> QED
  BY <1>1, <1>2, <1>3, AnswerInv DEF Ats

LEMMA StatusInv ==
  ASSUME PairingInv, NEW k \in Calls, Status(k)
  PROVE  PairingInv'
<1>1. /\ calls[k] # None /\ calls[k].kind = "probe"
      /\ UNCHANGED <<codes, registry, life, phone>>
  BY DEF Status, Is
<1>2. PICK at \in {"ok", "401"} : Answer(k, at, None)
  BY DEF Status
<1>3. sessions' \subseteq Cookies
  BY DEF Status, PairingInv, ServerType
<1> QED
  BY <1>1, <1>2, <1>3, AnswerInv DEF Ats

LEMMA EnrollFailsInv ==
  ASSUME PairingInv, NEW k \in Calls, EnrollFails(k)
  PROVE  PairingInv'
<1>1. /\ calls[k] # None /\ Answer(k, "refused", None)
      /\ UNCHANGED <<codes, registry, session, phone>>
  BY DEF EnrollFails, Is
<1>2. sessions' \subseteq Cookies
  BY <1>1 DEF session, PairingInv, ServerType
<1> QED
  BY <1>1, <1>2, AnswerInv DEF Ats, session

LEMMA LoseInv ==
  ASSUME PairingInv, NEW k \in Calls, Lose(k)
  PROVE  PairingInv'
<1>1. /\ calls[k] # None /\ Answer(k, "lost", None)
      /\ UNCHANGED <<codes, registry, session, phone>>
  BY DEF Lose
<1>2. sessions' \subseteq Cookies
  BY <1>1 DEF session, PairingInv, ServerType
<1> QED
  BY <1>1, <1>2, AnswerInv DEF Ats, session

LEMMA IssueCodeInv ==
  ASSUME PairingInv, NEW c \in Codes, IssueCode(c)
  PROVE  PairingInv'
<1> USE DEF IssueCode, PairingInv, registry, session, phone
<1>1. 0 \in 0 .. Attempts - 1
  BY PairingAssumption
<1>2. ServerType'
  BY <1>1 DEF ServerType
<1>3. PhoneType' /\ CallsInv' /\ JarsInv' /\ PhonesInv'
  BY DEF PhoneType, CallsInv, JarsInv, PhonesInv, ShowsKeychain
<1>4. TouchInv' /\ RevokedInv'
  BY DEF TouchInv, Is, RevokedInv, RevokedStaysOut, Made
<1>5. CodesInv'
  <2>1. c # None
    BY PairingAssumption
  <2>2. \A j \in Calls : Redeemed(j)' <=> Redeemed(j)
    BY DEF Redeemed, Is
  <2> QED
    BY <2>1, <2>2 DEF CodesInv, CodePairsOnce
<1> QED
  BY <1>2, <1>3, <1>4, <1>5

LEMMA CodeExpiresInv ==
  ASSUME PairingInv, CodeExpires
  PROVE  PairingInv'
<1> USE DEF CodeExpires, PairingInv, registry, session, phone
<1>1. 0 \in 0 .. Attempts - 1
  BY PairingAssumption
<1>2. ServerType'
  BY <1>1 DEF ServerType
<1>3. PhoneType' /\ CallsInv' /\ JarsInv' /\ PhonesInv'
  BY DEF PhoneType, CallsInv, JarsInv, PhonesInv, ShowsKeychain
<1>4. TouchInv' /\ RevokedInv'
  BY DEF TouchInv, Is, RevokedInv, RevokedStaysOut, Made
<1>5. CodesInv'
  <2>1. \A j \in Calls : Redeemed(j) => calls[j].sends # None
    BY PairingAssumption DEF Redeemed, Is, CallsInv, CallOK
  <2>2. \A j \in Calls : Redeemed(j)' <=> Redeemed(j)
    BY DEF Redeemed, Is
  <2> QED
    BY <2>1, <2>2 DEF CodesInv, CodePairsOnce
<1> QED
  BY <1>2, <1>3, <1>4, <1>5

LEMMA RevokeInv ==
  ASSUME PairingInv, NEW d \in Devices, Revoke(d)
  PROVE  PairingInv'
<1> USE DEF Revoke, Unlocked, PairingInv, codes, phone
<1>1. ServerType'
  BY DEF ServerType
<1>2. PhoneType' /\ CallsInv' /\ JarsInv' /\ PhonesInv'
  BY DEF PhoneType, CallsInv, JarsInv, PhonesInv, ShowsKeychain
<1>3. TouchInv'
  BY DEF TouchInv, Is
<1>4. RevokedInv'
  BY DEF RevokedInv, RevokedStaysOut, Made
<1>5. CodesInv'
  BY DEF CodesInv, CodePairsOnce, Redeemed, Is
<1> QED
  BY <1>1, <1>2, <1>3, <1>4, <1>5

LEMMA RestartInv ==
  ASSUME PairingInv, Restart
  PROVE  PairingInv'
<1> USE DEF PairingInv
<1>0. /\ code' = None /\ wrong' = 0 /\ touch' = None /\ sessions' = {}
      /\ life' \in 1 .. Lives
      /\ UNCHANGED <<issued, file, origin, revoked, phone>>
  BY PairingAssumption DEF Restart, ServerType
<1>1. \A k \in Calls : calls[k] # None /\ Handled(k) =>
        calls'[k] = [calls[k] EXCEPT !.at = "lost"]
  BY DEF Restart
<1>2. \A k \in Calls : ~(calls[k] # None /\ Handled(k)) => calls'[k] = calls[k]
  BY DEF Restart
<1>3. \A k \in Calls : calls[k] # None /\ Handled(k) =>
        /\ calls'[k] \in Call /\ CallOK(calls'[k]) /\ calls'[k].at = "lost"
        /\ calls'[k].phone = calls[k].phone /\ calls'[k].kind = calls[k].kind
        /\ calls'[k].client = calls[k].client
  <2> TAKE k \in Calls
  <2> HAVE calls[k] # None /\ Handled(k)
  <2>1. calls[k] \in Call /\ CallOK(calls[k])
    BY CallFields
  <2>2. calls'[k] = [calls[k] EXCEPT !.at = "lost"]
    BY <1>1
  <2>3. /\ calls'[k] \in Call /\ calls'[k].at = "lost"
        /\ calls'[k].phone = calls[k].phone /\ calls'[k].kind = calls[k].kind
        /\ calls'[k].client = calls[k].client /\ calls'[k].sends = calls[k].sends
    BY <2>1, <2>2 DEF Call
  <2> QED
    BY <2>1, <2>3 DEF CallOK
<1>4. CallsInv'
  <2>1. calls' = [k \in Calls |->
          IF calls[k] # None /\ Handled(k)
          THEN [calls[k] EXCEPT !.at = "lost"] ELSE calls[k]]
    BY DEF Restart
  <2>2. \A k \in Calls : calls'[k] \in Call \cup {None}
    BY <1>2, <1>3 DEF CallsInv
  <2>3. calls' \in [Calls -> Call \cup {None}]
    BY <2>1, <2>2
  <2> QED
    BY <1>2, <1>3, <2>3 DEF CallsInv
<1>5. \A k \in Calls : ~Redeemed(k)' /\ ~Is(k, "login", "touching")'
  BY <1>2, <1>3 DEF Redeemed, Is, Handled
<1>6. ServerType'
  <2>1. 0 \in 0 .. Attempts - 1
    BY PairingAssumption
  <2> QED
    BY <1>0, <2>1 DEF ServerType
<1>7. PhoneType' /\ JarsInv'
  BY <1>0, <1>2, <1>3 DEF PhoneType, JarsInv, phone
<1>8. PhonesInv'
  BY <1>0, <1>2, <1>3 DEF PhonesInv, ShowsKeychain, phone
<1>9. TouchInv' /\ RevokedInv'
  BY <1>0, <1>5 DEF TouchInv, RevokedInv, RevokedStaysOut, Made
<1>10. CodesInv'
  BY <1>0, <1>5 DEF CodesInv, CodePairsOnce
<1> QED
  BY <1>4, <1>6, <1>7, <1>8, <1>9, <1>10

LEMMA ServerStepInv ==
  ASSUME PairingInv, NEW k \in Calls, ServerStep(k)
  PROVE  PairingInv'
<1>1. CASE Redeem(k)                          BY <1>1, RedeemInv
<1>2. CASE EnrollFails(k)                     BY <1>2, EnrollFailsInv
<1>3. CASE \E d \in Devices : Enroll(k, d)    BY <1>3, EnrollInv
<1>4. CASE \E due \in BOOLEAN : Match(k, due) BY <1>4, MatchInv
<1>5. CASE Touch(k)                           BY <1>5, TouchInvariant
<1>6. CASE StartSession(k)                    BY <1>6, StartSessionInv
<1>7. CASE Status(k)                          BY <1>7, StatusInv
<1> QED
  BY <1>1, <1>2, <1>3, <1>4, <1>5, <1>6, <1>7 DEF ServerStep

-----------------------------------------------------------------------------
(* The phone's steps.                                                      *)

\* One call goes or makes way for a request the phone sends now.
Turned(k) ==
  /\ CallsInv'
  /\ \A j \in Calls \ {k} : calls'[j] = calls[j]
  /\ calls'[k] # None =>
       /\ calls'[k].at = "sent"
       /\ calls'[k].client = Len(jars[calls'[k].phone])

LEMMA DropTurns ==
  ASSUME CallsInv, NEW k \in Calls, Drop(k)
  PROVE  Turned(k) /\ calls'[k] = None
  BY DEF CallsInv, Drop, Turned

LEMMA ThenTurns ==
  ASSUME CallsInv, JarsInv, NEW k \in Calls, NEW p \in Phones,
         NEW kind \in {"pair", "login", "probe"}, NEW tick \in BOOLEAN,
         NEW sends \in Codes \cup Devices \cup Cookies \cup {None},
         kind = "pair" => sends \in Codes,
         kind = "login" => sends \in Devices,
         kind = "probe" => sends \in Cookies \cup {None},
         Then(k, NewCall(p, kind, sends, tick))
  PROVE  /\ Turned(k) /\ calls'[k] \in Call
         /\ calls'[k].phone = p /\ calls'[k].kind = kind
<1> DEFINE c == NewCall(p, kind, sends, tick)
<1>1. Len(jars[p]) \in Nat \ {0}
  BY DEF JarsInv
<1>2. /\ c \in Call /\ c.phone = p /\ c.kind = kind /\ c.at = "sent"
      /\ c.client = Len(jars[p]) /\ c.sends = sends
  BY <1>1 DEF NewCall, Call
<1>3. CallOK(c)
  BY <1>2 DEF CallOK
<1>4. calls' = [calls EXCEPT ![k] = c]
  BY DEF Then
<1> HIDE DEF c
<1> QED
  BY <1>2, <1>3, <1>4 DEF CallsInv, Turned

\* A phone's step answers no call.
NoAnswer ==
  \A j \in Calls :
    calls'[j] = calls[j] \/ calls'[j] = None \/ calls'[j].at = "sent"

\* No client of a phone goes but by a relaunch.
JarsGrow ==
  /\ jars' \in [Phones -> Seq(Cookies \cup {None})]
  /\ \A p \in Phones : Len(jars'[p]) >= Len(jars[p])

LEMMA PhoneKeeps ==
  ASSUME PairingInv, NEW k \in Calls, Turned(k), JarsGrow,
         UNCHANGED <<codes, registry, session>>, PhoneType', PhonesInv'
  PROVE  PairingInv' /\ NoAnswer
<1> USE DEF PairingInv
<1>1. JarsInv'
  <2>1. \A j \in Calls : calls'[j] # None => calls'[j].phone \in Phones
    BY DEF Turned, CallsInv, CallOK, Call
  <2>2. \A p \in Phones : Len(jars[p]) >= 1 /\ Len(jars[p]) \in Nat /\ Len(jars'[p]) \in Nat
    BY DEF JarsInv, JarsGrow
  <2>3. ASSUME NEW j \in Calls, calls'[j] # None
        PROVE  calls'[j].client \in 1 .. Len(jars'[calls'[j].phone])
    <3>1. calls'[j].client \in 1 .. Len(jars[calls'[j].phone])
      BY <2>1, <2>2, <2>3 DEF Turned, JarsInv
    <3> QED
      BY <2>1, <2>2, <2>3, <3>1 DEF JarsGrow
  <2> QED
    BY <2>2, <2>3 DEF JarsInv, JarsGrow
<1>2. \A j \in Calls : Redeemed(j)' => Redeemed(j) /\ calls'[j] = calls[j]
  BY DEF Turned, Redeemed, Is
<1>3. \A j \in Calls : Is(j, "login", "touching")' => Is(j, "login", "touching")
  BY DEF Turned, Is
<1>4. TouchInv' /\ CodesInv' /\ RevokedInv'
  BY <1>2, <1>3, RegistryStill
<1>5. ServerType' /\ CallsInv'
  BY DEF ServerType, codes, registry, session, Turned
<1>6. NoAnswer
  BY DEF Turned, NoAnswer
<1> QED
  BY <1>1, <1>4, <1>5, <1>6

\* The pairings are as they were, and no new one is under way.
LEMMA PhonesStill ==
  ASSUME PairingInv, NEW k \in Calls, Turned(k),
         calls'[k] # None => calls'[k].kind # "pair",
         UNCHANGED <<state, device, keychain>>
  PROVE  PhonesInv'
  BY DEF PairingInv, PhonesInv, ShowsKeychain, Turned

LEMMA SamePhones ==
  ASSUME PairingInv, UNCHANGED jars
  PROVE  JarsGrow
  BY DEF PairingInv, JarsInv, JarsGrow

\* `forget' may come at any time.
LEMMA ForgetKeeps ==
  ASSUME PairingInv, NEW p \in Phones, Forget(p),
         \A j \in Calls : calls'[j] = calls[j] \/ calls'[j] = None
  PROVE  JarsGrow /\ PhoneType' /\ PhonesInv'
<1> USE DEF PairingInv, Forget
<1>1. jars[p] \in Seq(Cookies \cup {None})
  BY DEF JarsInv
<1>2. /\ Append(jars[p], None) \in Seq(Cookies \cup {None})
      /\ Len(Append(jars[p], None)) >= Len(jars[p])
  BY <1>1
<1>3. JarsGrow
  BY <1>2 DEF JarsInv, JarsGrow
<1>4. PhoneType'
  BY DEF PhoneType
<1>5. PhonesInv'
  BY DEF PhonesInv, ShowsKeychain, PhoneType
<1> QED
  BY <1>3, <1>4, <1>5

LEMMA ScanInv ==
  ASSUME PairingInv, NEW p \in Phones, NEW k \in Calls, NEW c \in Codes, Scan(p, k, c)
  PROVE  PairingInv' /\ NoAnswer
<1>0. /\ state[p] = "unpaired" /\ calls[k] = None
      /\ \A j \in Calls : calls[j] # None => calls[j].phone # p \/ calls[j].kind # "pair"
      /\ state' = [state EXCEPT ![p] = "pairing"]
      /\ Then(k, NewCall(p, "pair", c, FALSE))
      /\ UNCHANGED <<codes, registry, session, device, keychain, phase, cookie, jars>>
  BY DEF Scan
<1>1. /\ Turned(k) /\ calls'[k] \in Call
      /\ calls'[k].phone = p /\ calls'[k].kind = "pair"
  BY <1>0, ThenTurns DEF PairingInv
<1>2. PhoneType'
  BY <1>0 DEF PairingInv, PhoneType
<1>3. PhonesInv'
  <2>1. state' \in [Phones -> {"unpaired", "pairing", "paired"}] /\ state'[p] = "pairing"
        /\ \A q \in Phones \ {p} : state'[q] = state[q]
    BY <1>0 DEF PairingInv, PhoneType
  <2>2. ShowsKeychain'
    BY <1>0, <2>1 DEF PairingInv, PhonesInv, ShowsKeychain
  <2>3. \A j \in Calls : calls'[j] # None => calls'[j].phone \in Phones
    BY <1>1 DEF Turned, CallsInv, CallOK, Call
  <2> QED
    BY <1>0, <1>1, <2>1, <2>2, <2>3 DEF PairingInv, PhonesInv, Turned
<1> QED
  BY <1>0, <1>1, <1>2, <1>3, PhoneKeeps, SamePhones

LEMMA PairedInv ==
  ASSUME PairingInv, NEW k \in Calls, Paired(k)
  PROVE  PairingInv' /\ NoAnswer
<1> DEFINE p == calls[k].phone
           d == calls[k].gets
<1>0. /\ calls[k] # None /\ calls[k].kind = "pair" /\ calls[k].at = "ok"
      /\ keychain' = [keychain EXCEPT ![p] = d]
      /\ cookie' = [cookie EXCEPT ![p] = None]
      /\ state' = [state EXCEPT ![p] = "paired"]
      /\ device' = [device EXCEPT ![p] = d]
      /\ phase' = [phase EXCEPT ![p] = "connecting"]
      /\ Then(k, NewCall(p, "login", d, FALSE))
      /\ UNCHANGED <<codes, registry, session, jars>>
  BY DEF Paired, Is
<1>1. p \in Phones /\ d \in Devices /\ d # None
  BY <1>0, CallFields, PairingAssumption DEF PairingInv, CallOK
<1>2. \A j \in Calls \ {k} : calls[j] # None /\ calls[j].kind = "pair" => calls[j].phone # p
  BY <1>0 DEF PairingInv, PhonesInv
<1> HIDE DEF p, d
<1>3. Turned(k) /\ calls'[k].kind = "login"
  BY <1>0, <1>1, ThenTurns DEF PairingInv
<1>4. PhoneType'
  BY <1>0, <1>1 DEF PairingInv, PhoneType
<1>5. PhonesInv'
  <2>1. \A j \in Calls : calls'[j] # None => calls'[j].phone \in Phones
    BY <1>3 DEF Turned, CallsInv, CallOK, Call
  <2>2. ShowsKeychain'
    BY <1>0, <1>1 DEF PairingInv, PhonesInv, ShowsKeychain, PhoneType
  <2> QED
    BY <1>0, <1>2, <1>3, <2>1, <2>2 DEF PairingInv, PhonesInv, PhoneType, Turned
<1> QED
  BY <1>0, <1>3, <1>4, <1>5, PhoneKeeps, SamePhones

LEMMA PairFailedInv ==
  ASSUME PairingInv, NEW k \in Calls, PairFailed(k)
  PROVE  PairingInv' /\ NoAnswer
<1> DEFINE p == calls[k].phone
<1>0. /\ calls[k] # None /\ calls[k].kind = "pair"
      /\ state' = [state EXCEPT ![p] = "unpaired"]
      /\ device' = [device EXCEPT ![p] = None]
      /\ Drop(k)
      /\ UNCHANGED <<codes, registry, session, keychain, phase, cookie, jars>>
  BY DEF PairFailed, Is
<1>1. p \in Phones /\ keychain[p] = None
  BY <1>0, CallFields DEF PairingInv, PhonesInv, ShowsKeychain
<1>2. Turned(k) /\ calls'[k] = None
  BY <1>0, DropTurns DEF PairingInv
<1> HIDE DEF p
<1>3. PhoneType'
  BY <1>0, <1>1 DEF PairingInv, PhoneType
<1>4. PhonesInv'
  BY <1>0, <1>1, <1>2 DEF PairingInv, PhonesInv, ShowsKeychain, PhoneType, Turned
<1> QED
  BY <1>0, <1>2, <1>3, <1>4, PhoneKeeps, SamePhones

\* A phone that is paired stores a token.
LEMMA PairedToken ==
  ASSUME PairingInv, NEW p \in Phones, state[p] = "paired"
  PROVE  keychain[p] \in Devices
  BY DEF PairingInv, PhonesInv, ShowsKeychain, PhoneType

LEMMA ConnectInv ==
  ASSUME PairingInv, NEW p \in Phones, NEW k \in Calls, Connect(p, k)
  PROVE  PairingInv' /\ NoAnswer
<1>0. /\ state[p] = "paired" /\ phase' = [phase EXCEPT ![p] = "connecting"]
      /\ Then(k, NewCall(p, "login", keychain[p], FALSE))
      /\ UNCHANGED <<codes, registry, session, state, device, keychain, cookie, jars>>
  BY DEF Connect
<1>1. Turned(k) /\ calls'[k].kind = "login"
  BY <1>0, PairedToken, ThenTurns DEF PairingInv
<1>2. PhoneType'
  BY <1>0 DEF PairingInv, PhoneType
<1> QED
  BY <1>0, <1>1, <1>2, PhonesStill, PhoneKeeps, SamePhones

LEMMA ProbeInv ==
  ASSUME PairingInv, NEW p \in Phones, NEW k \in Calls, Probe(p, k)
  PROVE  PairingInv' /\ NoAnswer
<1>0. /\ Then(k, NewCall(p, "probe", Jar(p), TRUE))
      /\ UNCHANGED <<codes, registry, session, phone>>
  BY DEF Probe
<1>1. Jar(p) \in Cookies \cup {None}
  BY DEF PairingInv, JarsInv, Jar
<1>2. Turned(k) /\ calls'[k].kind = "probe"
  BY <1>0, <1>1, ThenTurns DEF PairingInv
<1>3. PhoneType'
  BY <1>0 DEF PairingInv, PhoneType, phone
<1> QED
  BY <1>0, <1>2, <1>3, PhonesStill, PhoneKeeps, SamePhones DEF phone

\* What `connect' does after a login that was not refused.
LEMMA CheckTurns ==
  ASSUME PairingInv, NEW k \in Calls, calls[k] # None, Check(k), JarsGrow,
         \A p \in Phones : Len(jars'[p]) = Len(jars[p])
  PROVE  Turned(k) /\ (calls'[k] # None => calls'[k].kind # "pair")
<1> DEFINE p == calls[k].phone
           s == jars'[p][Len(jars[p])]
<1>1. p \in Phones
  BY CallFields DEF PairingInv
<1>2. jars'[p][Len(jars'[p])] \in Cookies \cup {None}
  BY <1>1 DEF JarsGrow, PairingInv, JarsInv
<1>3. s \in Cookies \cup {None}
  BY <1>1, <1>2
<1>4. CASE state[p] = "paired"
  <2>1. Then(k, NewCall(p, "probe", s, FALSE))
    BY <1>4 DEF Check
  <2> HIDE DEF p, s
  <2> QED
    BY <1>1, <1>3, <2>1, ThenTurns DEF PairingInv
<1>5. CASE state[p] # "paired"
  BY <1>5, DropTurns DEF Check, PairingInv
<1> QED
  BY <1>4, <1>5

LEMMA LoggedInInv ==
  ASSUME PairingInv, NEW k \in Calls, LoggedIn(k)
  PROVE  PairingInv' /\ NoAnswer
<1> DEFINE p == calls[k].phone
           g == calls[k].gets
           i == calls[k].client
<1>0. /\ calls[k] # None /\ calls[k].kind = "login" /\ calls[k].at = "ok"
      /\ cookie' = [cookie EXCEPT ![p] = g]
      /\ jars' = [jars EXCEPT ![p] = [@ EXCEPT ![i] = g]]
      /\ phase' = [phase EXCEPT ![p] = "connected"]
      /\ Check(k)
      /\ UNCHANGED <<codes, registry, session, state, device, keychain>>
  BY DEF LoggedIn, Is
<1>1. p \in Phones /\ g \in Cookies /\ i \in 1 .. Len(jars[p])
  BY <1>0, CallFields DEF PairingInv, CallOK, JarsInv
<1> HIDE DEF p, g, i
<1>2. jars[p] \in Seq(Cookies \cup {None})
  BY <1>1 DEF PairingInv, JarsInv
<1>3. /\ [jars[p] EXCEPT ![i] = g] \in Seq(Cookies \cup {None})
      /\ Len([jars[p] EXCEPT ![i] = g]) = Len(jars[p])
  BY <1>1, <1>2
<1>4. JarsGrow /\ \A q \in Phones : Len(jars'[q]) = Len(jars[q])
  <2>1. jars' \in [Phones -> Seq(Cookies \cup {None})]
    BY <1>0, <1>1, <1>3 DEF PairingInv, JarsInv
  <2>2. \A q \in Phones : Len(jars'[q]) = Len(jars[q])
    BY <1>0, <1>1, <1>3 DEF PairingInv, JarsInv
  <2>3. \A q \in Phones : Len(jars[q]) \in Nat
    BY DEF PairingInv, JarsInv
  <2> QED
    BY <2>1, <2>2, <2>3 DEF JarsGrow
<1>5. Turned(k) /\ (calls'[k] # None => calls'[k].kind # "pair")
  BY <1>0, <1>4, CheckTurns
<1>6. PhoneType'
  BY <1>0, <1>1 DEF PairingInv, PhoneType
<1> QED
  BY <1>0, <1>4, <1>5, <1>6, PhonesStill, PhoneKeeps

LEMMA LoginLostInv ==
  ASSUME PairingInv, NEW k \in Calls, LoginLost(k)
  PROVE  PairingInv' /\ NoAnswer
<1>0. /\ calls[k] # None /\ phase' = [phase EXCEPT ![calls[k].phone] = "offline"]
      /\ Check(k) /\ UNCHANGED <<codes, registry, session>>
      /\ UNCHANGED <<state, device, keychain, cookie, jars>>
  BY DEF LoginLost, Is
<1>1. JarsGrow
  BY <1>0, SamePhones
<1>2. Turned(k) /\ (calls'[k] # None => calls'[k].kind # "pair")
  BY <1>0, <1>1, CheckTurns
<1>3. PhoneType'
  BY <1>0 DEF PairingInv, PhoneType
<1> QED
  BY <1>0, <1>1, <1>2, <1>3, PhonesStill, PhoneKeeps

\* A refused login or probe forgets the pairing and its own call.
LEMMA ForgetDropInv ==
  ASSUME PairingInv, NEW k \in Calls, calls[k] # None,
         Forget(calls[k].phone), Drop(k), UNCHANGED <<codes, registry, session>>
  PROVE  PairingInv' /\ NoAnswer
<1>1. calls[k].phone \in Phones
  BY CallFields DEF PairingInv
<1>2. Turned(k) /\ calls'[k] = None
  BY DropTurns DEF PairingInv
<1>3. JarsGrow /\ PhoneType' /\ PhonesInv'
  BY <1>1, <1>2, ForgetKeeps DEF Turned
<1> QED
  BY <1>2, <1>3, PhoneKeeps

LEMMA ReachedInv ==
  ASSUME PairingInv, NEW k \in Calls, Reached(k)
  PROVE  PairingInv' /\ NoAnswer
<1> DEFINE p == calls[k].phone
<1>0. /\ calls[k] # None /\ p \in Phones
      /\ UNCHANGED <<codes, registry, session>>
      /\ UNCHANGED <<state, device, keychain, cookie, jars>>
  BY CallFields DEF Reached, Is, Refuses, PairingInv
<1>1. CASE calls[k].tick /\ state[p] = "paired" /\ phase[p] \in {"offline", "idle"}
  <2>1. /\ phase' = [phase EXCEPT ![p] = "connecting"]
        /\ Then(k, NewCall(p, "login", keychain[p], FALSE))
    BY <1>1 DEF Reached
  <2>2. PhoneType'
    BY <1>0, <2>1 DEF PairingInv, PhoneType
  <2> HIDE DEF p
  <2>3. Turned(k) /\ calls'[k].kind = "login"
    BY <1>0, <1>1, <2>1, PairedToken, ThenTurns DEF PairingInv
  <2> QED
    BY <1>0, <2>2, <2>3, PhonesStill, PhoneKeeps, SamePhones
<1>2. CASE ~(calls[k].tick /\ state[p] = "paired" /\ phase[p] \in {"offline", "idle"})
  <2>1. Drop(k) /\ UNCHANGED phase
    BY <1>2 DEF Reached
  <2>2. PhoneType'
    BY <1>0, <2>1 DEF PairingInv, PhoneType
  <2>3. Turned(k) /\ calls'[k] = None
    BY <2>1, DropTurns DEF PairingInv
  <2> QED
    BY <1>0, <2>2, <2>3, PhonesStill, PhoneKeeps, SamePhones
<1> QED
  BY <1>1, <1>2

LEMMA UnreachedInv ==
  ASSUME PairingInv, NEW k \in Calls, Unreached(k)
  PROVE  PairingInv' /\ NoAnswer
<1> DEFINE p == calls[k].phone
           f == IF calls[k].tick /\ phase[p] = "connected" THEN "offline" ELSE phase[p]
<1>0. /\ calls[k] # None /\ Drop(k) /\ phase' = [phase EXCEPT ![p] = f]
      /\ UNCHANGED <<codes, registry, session>>
      /\ UNCHANGED <<state, device, keychain, cookie, jars>>
  BY DEF Unreached, Is
<1>1. p \in Phones
  BY <1>0, CallFields DEF PairingInv
<1>2. f \in {"idle", "connecting", "connected", "offline"}
  BY <1>1 DEF PairingInv, PhoneType
<1> HIDE DEF f
<1>3. PhoneType'
  BY <1>0, <1>1, <1>2 DEF PairingInv, PhoneType
<1>4. Turned(k) /\ calls'[k] = None
  BY <1>0, DropTurns DEF PairingInv
<1> QED
  BY <1>0, <1>3, <1>4, PhonesStill, PhoneKeeps, SamePhones

\* A phone forgets its pairing on its user's word or a page's.
LEMMA ForgetInv ==
  ASSUME PairingInv, NEW p \in Phones, Forget(p),
         UNCHANGED <<codes, registry, session, calls>>
  PROVE  PairingInv' /\ NoAnswer
<1> USE DEF PairingInv
<1>1. JarsGrow /\ PhoneType' /\ PhonesInv'
  BY ForgetKeeps
<1>2. ServerType' /\ CallsInv'
  BY DEF ServerType, CallsInv, codes, registry, session
<1>3. \A j \in Calls : /\ Redeemed(j)' => Redeemed(j) /\ calls'[j] = calls[j]
                       /\ Is(j, "login", "touching")' => Is(j, "login", "touching")
  BY DEF Redeemed, Is
<1>4. TouchInv' /\ CodesInv' /\ RevokedInv'
  BY <1>3, RegistryStill
<1>5. JarsInv'
  <2>1. \A j \in Calls : calls[j] # None => calls[j].phone \in Phones
    BY CallFields
  <2>2. \A q \in Phones : Len(jars[q]) \in Nat /\ Len(jars'[q]) \in Nat
    BY <1>1 DEF JarsInv, JarsGrow
  <2> QED
    BY <1>1, <2>1, <2>2 DEF JarsInv, JarsGrow
<1> QED
  BY <1>1, <1>2, <1>4, <1>5 DEF NoAnswer

LEMMA RelaunchInv ==
  ASSUME PairingInv, NEW p \in Phones, Relaunch(p)
  PROVE  PairingInv' /\ NoAnswer
<1> USE DEF PairingInv
<1>0. /\ UNCHANGED <<codes, registry, session, keychain>>
      /\ device' = [device EXCEPT ![p] = keychain[p]]
      /\ state' = [state EXCEPT ![p] = IF keychain[p] = None THEN "unpaired" ELSE "paired"]
      /\ phase' = [phase EXCEPT ![p] = "idle"]
      /\ cookie' = [cookie EXCEPT ![p] = None]
      /\ jars' = [jars EXCEPT ![p] = <<None>>]
  BY DEF Relaunch
<1>1. /\ \A j \in Calls : calls'[j] = calls[j] \/ calls'[j] = None
      /\ \A j \in Calls : calls'[j] # None => calls[j].phone # p
      /\ calls' \in [Calls -> Call \cup {None}]
  BY DEF Relaunch, CallsInv
<1>2. CallsInv'
  BY <1>1 DEF CallsInv
<1>3. PhoneType' /\ ServerType'
  BY <1>0 DEF PhoneType, ServerType, codes, registry, session
<1>4. PhonesInv'
  <2>1. \A j \in Calls : calls'[j] # None => calls'[j].phone \in Phones
    BY <1>2 DEF CallsInv, CallOK, Call
  <2>2. ShowsKeychain'
    BY <1>0 DEF PhonesInv, ShowsKeychain, PhoneType
  <2> QED
    BY <1>0, <1>1, <2>1, <2>2 DEF PhonesInv, PhoneType
<1>5. JarsInv'
  <2>1. \A j \in Calls : calls'[j] # None => calls'[j].phone \in Phones
    BY <1>2 DEF CallsInv, CallOK, Call
  <2>2. <<None>> \in Seq(Cookies \cup {None}) /\ Len(<<None>>) = 1
    OBVIOUS
  <2>3. jars' \in [Phones -> Seq(Cookies \cup {None})] /\ jars'[p] = <<None>>
        /\ \A q \in Phones \ {p} : jars'[q] = jars[q]
    BY <1>0, <2>2 DEF JarsInv
  <2>4. \A q \in Phones : Len(jars'[q]) >= 1
    <3>1. Len(jars'[p]) >= 1
      BY <2>2, <2>3
    <3>2. \A q \in Phones \ {p} : Len(jars'[q]) >= 1
      <4>1. \A q \in Phones : Len(jars[q]) >= 1
        BY DEF JarsInv
      <4> QED
        BY <2>3, <4>1
    <3> QED
      BY <3>1, <3>2
  <2>5. \A j \in Calls : calls'[j] # None =>
          calls'[j] = calls[j] /\ calls[j].phone \in Phones \ {p}
    BY <1>1, <2>1
  <2>6. \A j \in Calls : calls'[j] # None =>
          calls'[j].client \in 1 .. Len(jars'[calls'[j].phone])
    <3> TAKE j \in Calls
    <3> HAVE calls'[j] # None
    <3>1. calls'[j] = calls[j] /\ jars'[calls[j].phone] = jars[calls[j].phone]
      BY <2>3, <2>5
    <3>2. calls[j].client \in 1 .. Len(jars[calls[j].phone])
      BY <3>1 DEF JarsInv
    <3> QED
      BY <3>1, <3>2
  <2> QED
    BY <2>3, <2>4, <2>6 DEF JarsInv
<1>6. \A j \in Calls : /\ Redeemed(j)' => Redeemed(j) /\ calls'[j] = calls[j]
                       /\ Is(j, "login", "touching")' => Is(j, "login", "touching")
  BY <1>1 DEF Redeemed, Is
<1>7. TouchInv' /\ CodesInv' /\ RevokedInv'
  BY <1>0, <1>6, RegistryStill
<1> QED
  BY <1>1, <1>2, <1>3, <1>4, <1>5, <1>7 DEF NoAnswer

LEMMA PhoneStepInv ==
  ASSUME PairingInv, NEW k \in Calls, PhoneStep(k)
  PROVE  PairingInv' /\ NoAnswer
<1>1. CASE Paired(k)       BY <1>1, PairedInv
<1>2. CASE PairFailed(k)   BY <1>2, PairFailedInv
<1>3. CASE LoggedIn(k)     BY <1>3, LoggedInInv
<1>4. CASE LoginLost(k)    BY <1>4, LoginLostInv
<1>5. CASE LoginRefused(k) BY <1>5, ForgetDropInv DEF LoginRefused, Is
<1>6. CASE Reached(k)      BY <1>6, ReachedInv
<1>7. CASE Unreached(k)    BY <1>7, UnreachedInv
<1>8. CASE ProbeRefused(k) BY <1>8, ForgetDropInv DEF ProbeRefused, Refuses, Is
<1> QED
  BY <1>1, <1>2, <1>3, <1>4, <1>5, <1>6, <1>7, <1>8 DEF PhoneStep

LEMMA UserStepInv ==
  ASSUME PairingInv, NEW p \in Phones, UserStep(p)
  PROVE  PairingInv' /\ NoAnswer
<1>1. CASE \E k \in Calls : Connect(p, k) BY <1>1, ConnectInv
<1>2. CASE \E k \in Calls : Probe(p, k)   BY <1>2, ProbeInv
<1>3. CASE \E k \in Calls : \E c \in Codes : Scan(p, k, c)
  BY <1>3, ScanInv
<1>4. CASE PageRefused(p)                 BY <1>4, ForgetInv DEF PageRefused
<1>5. CASE Unpair(p)                      BY <1>5, ForgetInv DEF Unpair
<1>6. CASE Relaunch(p)                    BY <1>6, RelaunchInv
<1> QED
  BY <1>1, <1>2, <1>3, <1>4, <1>5, <1>6 DEF UserStep

-----------------------------------------------------------------------------
(* The invariant, and what follows from it.                                *)

LEMMA InitInv == PairingInit => PairingInv
<1> SUFFICES ASSUME PairingInit PROVE PairingInv
  OBVIOUS
<1> USE DEF PairingInit
<1>1. ServerType
  BY PairingAssumption DEF ServerType
<1>2. PhoneType
  BY DEF PhoneType
<1>3. CallsInv /\ TouchInv
  BY DEF CallsInv, TouchInv, Is
<1>4. JarsInv
  <2>1. <<None>> \in Seq(Cookies \cup {None}) /\ Len(<<None>>) = 1
    OBVIOUS
  <2> QED
    BY <2>1 DEF JarsInv
<1>5. CodesInv
  BY DEF CodesInv, CodePairsOnce, Redeemed, Is
<1>6. RevokedInv
  BY DEF RevokedInv, RevokedStaysOut, Made
<1>7. PhonesInv
  BY DEF PhonesInv, ShowsKeychain
<1> QED
  BY <1>1, <1>2, <1>3, <1>4, <1>5, <1>6, <1>7 DEF PairingInv

LEMMA NextInv == PairingInv /\ [PairingNext]_pairingVars => PairingInv'
<1> SUFFICES ASSUME PairingInv, [PairingNext]_pairingVars PROVE PairingInv'
  OBVIOUS
<1>1. CASE OwnerStep
  BY <1>1, IssueCodeInv, RevokeInv DEF OwnerStep
<1>2. CASE CodeExpires
  BY <1>2, CodeExpiresInv
<1>3. CASE Restart
  BY <1>3, RestartInv
<1>4. CASE \E k \in Calls : ServerStep(k)
  BY <1>4, ServerStepInv
<1>5. CASE \E k \in Calls : PhoneStep(k)
  BY <1>5, PhoneStepInv
<1>6. CASE \E k \in Calls : Lose(k)
  BY <1>6, LoseInv
<1>7. CASE \E p \in Phones : UserStep(p)
  BY <1>7, UserStepInv
<1>8. CASE UNCHANGED pairingVars
  <2> USE <1>8 DEF PairingInv, pairingVars, codes, registry, session, phone
  <2>1. ServerType' /\ PhoneType' /\ CallsInv' /\ JarsInv'
    BY DEF ServerType, PhoneType, CallsInv, JarsInv
  <2>2. TouchInv' /\ CodesInv' /\ RevokedInv' /\ PhonesInv'
    BY DEF TouchInv, CodesInv, CodePairsOnce, Redeemed, Is, RevokedInv, RevokedStaysOut,
           Made, PhonesInv, ShowsKeychain
  <2> QED
    BY <2>1, <2>2
<1> QED
  BY <1>1, <1>2, <1>3, <1>4, <1>5, <1>6, <1>7, <1>8 DEF PairingNext

LEMMA PairingAlways == PairingSpec => []PairingInv
  BY InitInv, NextInv, PTL DEF PairingSpec

\* Every variable of devices.py, DeviceSession and PhoneModel keeps its type; in
\* particular the failures counted against a code stay below CODE_ATTEMPTS.
THEOREM PairingTypeCorrect == PairingSpec => []PairingTypeOK
<1>1. PairingInv => PairingTypeOK
  BY DEF PairingInv, ServerType, PhoneType, CallsInv, JarsInv, PairingTypeOK
<1> QED
  BY <1>1, PairingAlways, PTL

\* However many phones redeem a code at once, `consume' lets one device be made
\* from it.
THEOREM CodePairsOnceHolds == PairingSpec => []CodePairsOnce
<1>1. PairingInv => CodePairsOnce
  BY DEF PairingInv, CodesInv
<1> QED
  BY <1>1, PairingAlways, PTL

\* The list `match' writes back under the lock never brings a revoked device back.
THEOREM RevokedStaysOutHolds == PairingSpec => []RevokedStaysOut
<1>1. PairingInv => RevokedStaysOut
  BY DEF PairingInv, RevokedInv
<1> QED
  BY <1>1, PairingAlways, PTL

\* Late answers, failed logins and relaunches leave the session of a phone and its
\* keychain at the same device.
THEOREM ShowsKeychainHolds == PairingSpec => []ShowsKeychain
<1>1. PairingInv => ShowsKeychain
  BY DEF PairingInv, PhonesInv
<1> QED
  BY <1>1, PairingAlways, PTL

\* A probe is answered by `session', and by nothing else.
LEMMA ProbeAnswered ==
  ASSUME PairingInv, [PairingNext]_pairingVars, NEW k \in Calls,
         Is(k, "probe", "sent"), Is(k, "probe", "ok")'
  PROVE  calls[k].sends.device \notin revoked
<1> USE DEF PairingInv
<1>0. /\ calls[k] # None /\ calls[k].kind = "probe" /\ calls[k].at = "sent"
      /\ calls'[k] # calls[k] /\ calls'[k] # None /\ calls'[k].at = "ok"
  BY DEF Is
<1>1. ASSUME NEW j \in Calls, NEW at \in Ats, NEW gets \in Devices \cup Cookies \cup {None},
             calls[j] # None, Answer(j, at, gets)
      PROVE  j = k /\ at = "ok"
  BY <1>0, <1>1, AnswerAnswers DEF Answered
<1>2. ~NoAnswer
  BY <1>0 DEF NoAnswer
<1>3. ASSUME NEW j \in Calls, ServerStep(j) PROVE Status(k)
  <2>1. CASE Redeem(j)
    BY <1>0, <1>1, <2>1 DEF Redeem, Is, Ats
  <2>2. CASE EnrollFails(j)
    BY <1>0, <1>1, <2>2 DEF EnrollFails, Is, Ats
  <2>3. CASE \E d \in Devices : Enroll(j, d)
    BY <1>0, <1>1, <2>3 DEF Enroll, Is, Ats
  <2>4. CASE \E due \in BOOLEAN : Match(j, due)
    BY <1>0, <1>1, <2>4 DEF Match, Is, Ats
  <2>5. CASE Touch(j)
    BY <1>0, <1>1, <2>5 DEF Touch, Is, Ats
  <2>6. CASE StartSession(j)
    <3> DEFINE new == [device |-> calls[j].sends, life |-> life]
    <3>1. /\ calls[j] # None /\ calls[j].kind = "login" /\ Answer(j, "ok", new)
      BY <2>6 DEF StartSession, Is
    <3>2. new \in Cookies
      BY <3>1 DEF CallsInv, CallOK, ServerType, Cookies
    <3> HIDE DEF new
    <3> QED
      BY <1>0, <1>1, <3>1, <3>2 DEF Ats
  <2>7. CASE Status(j)
    <3>1. PICK at \in {"ok", "401"} : Answer(j, at, None)
      BY <2>7 DEF Status
    <3>2. calls[j] # None
      BY <2>7 DEF Status, Is
    <3>3. j = k
      BY <1>1, <3>1, <3>2 DEF Ats
    <3> QED
      BY <2>7, <3>3
  <2> QED
    BY <1>3, <2>1, <2>2, <2>3, <2>4, <2>5, <2>6, <2>7 DEF ServerStep
<1>4. ASSUME NEW j \in Calls, Lose(j) PROVE FALSE
  BY <1>1, <1>4 DEF Lose, Ats
<1>5. ASSUME NEW j \in Calls, PhoneStep(j) PROVE FALSE
  BY <1>2, <1>5, PhoneStepInv
<1>6. ASSUME NEW p \in Phones, UserStep(p) PROVE FALSE
  BY <1>2, <1>6, UserStepInv
<1>7. ~OwnerStep /\ ~CodeExpires /\ ~UNCHANGED pairingVars
  BY <1>0 DEF OwnerStep, IssueCode, Revoke, CodeExpires, pairingVars
<1>8. ~Restart
  BY <1>0 DEF Restart, Handled
<1>9. Status(k)
  BY <1>3, <1>4, <1>5, <1>6, <1>7, <1>8 DEF PairingNext
<1>10. calls[k].sends # None /\ Accepts(calls[k].sends)
  <2> SUFFICES ASSUME ~(calls[k].sends # None /\ Accepts(calls[k].sends)) PROVE FALSE
    OBVIOUS
  <2>1. Answer(k, "401", None)
    BY <1>9 DEF Status
  <2> QED
    BY <1>0, <1>1, <2>1 DEF Ats
<1> QED
  BY <1>10 DEF Accepts, RevokedInv, RevokedStaysOut

\* A session started for a device that was revoked meanwhile opens nothing:
\* `session' looks the device up again.
THEOREM RevokedRefusedHolds == PairingSpec => RevokedRefused
<1>1. PairingInv /\ [PairingNext]_pairingVars =>
        [\A k \in Calls : Is(k, "probe", "sent") /\ Is(k, "probe", "ok")' =>
           calls[k].sends.device \notin revoked]_pairingVars
  BY ProbeAnswered
<1> QED
  BY <1>1, PairingAlways, PTL DEF PairingSpec, RevokedRefused
=============================================================================
