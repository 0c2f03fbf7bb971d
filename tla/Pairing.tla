------------------------------ MODULE Pairing ------------------------------
(***************************************************************************)
(* Paired phones: the registry of `fo serve' (src/fo/serve/devices.py and  *)
(* routes_devices.py) with its pairing code, its devices file and its      *)
(* sessions, and the phones that pair, log in and probe (DeviceSession of  *)
(* apple/FOKit and PhoneModel of the iPhone app).                          *)
(*                                                                         *)
(* A phone's requests are calls: sent, handled by a thread of the server,  *)
(* answered or lost, and taken up by the phone whenever its main actor     *)
(* gets to them, by when the phone may have been unpaired or paired anew.  *)
(***************************************************************************)
EXTENDS Integers, Sequences, Functions

CONSTANTS Devices,   \* device ids, random and never drawn twice
          Codes,     \* pairing codes, likewise
          Phones,
          Calls,     \* requests under way
          Attempts,  \* CODE_ATTEMPTS
          Lives,     \* bound: how often the server is started
          Clients,   \* bound: how many API clients the phones make between relaunches
          None

ASSUME PairingAssumption ==
  /\ None \notin Devices \cup Codes \cup Calls
  /\ Attempts \in Nat \ {0}
  /\ Lives \in Nat \ {0}
  /\ Clients \in Nat \ {0}
  /\ None \notin [device : Devices, life : 1 .. Lives]
  /\ None \notin [call : Calls, loaded : SUBSET Devices]

VARIABLES
  code,      \* the outstanding pairing code, or None
  wrong,     \* failed redemptions while it was outstanding
  issued,    \* the codes the Mac has shown
  file,      \* the devices of secrets/devices.json
  origin,    \* the code each device was made from, or None
  revoked,   \* the devices the Mac has revoked
  touch,     \* the call that holds the registry's lock with the list it loaded
  life,      \* which start of the server this is
  sessions,  \* the login sessions in memory, by cookie
  calls,     \* each call, or None
  state,     \* DeviceSession.state of each phone ...
  device,    \* ... and the device it is paired as, or None
  keychain,  \* the device whose token the phone stores, or None
  phase,     \* PhoneModel.phase
  cookie,    \* DeviceSession.cookies, which the web view gets
  jars       \* the cookie of each API client the phone has made; the last is in use

codes    == <<code, wrong, issued>>
registry == <<file, origin, revoked, touch>>
session  == <<life, sessions>>
phone    == <<state, device, keychain, phase, cookie, jars>>
pairingVars == <<codes, registry, session, calls, phone>>

Cookies == [device : Devices, life : 1 .. Lives]

\* What a call carries is a code, a token or a cookie; what it brings back is a
\* device with its token, or a cookie.
Call == [phone : Phones, kind : {"pair", "login", "probe"}, client : Nat \ {0},
         sends : Codes \cup Devices \cup Cookies \cup {None}, tick : BOOLEAN,
         at : {"sent", "redeemed", "touching", "matched", "ok", "401", "refused", "lost"},
         gets : Devices \cup Cookies \cup {None}]

PairingTypeOK ==
  /\ code \in Codes \cup {None}
  /\ wrong \in 0 .. Attempts - 1
  /\ issued \subseteq Codes
  /\ file \subseteq Devices
  /\ origin \in [Devices -> Codes \cup {None}]
  /\ revoked \subseteq Devices
  /\ touch = None \/ touch \in [call : Calls, loaded : SUBSET Devices]
  /\ life \in 1 .. Lives
  /\ sessions \subseteq Cookies
  /\ calls \in [Calls -> Call \cup {None}]
  /\ state \in [Phones -> {"unpaired", "pairing", "paired"}]
  /\ device \in [Phones -> Devices \cup {None}]
  /\ keychain \in [Phones -> Devices \cup {None}]
  /\ phase \in [Phones -> {"idle", "connecting", "connected", "offline"}]
  /\ cookie \in [Phones -> Cookies \cup {None}]
  /\ jars \in [Phones -> Seq(Cookies \cup {None})]

PairingInit ==
  /\ code = None /\ wrong = 0 /\ issued = {}
  /\ file = {} /\ revoked = {} /\ touch = None
  /\ origin = [d \in Devices |-> None]
  /\ life = 1 /\ sessions = {}
  /\ calls = [k \in Calls |-> None]
  /\ state = [p \in Phones |-> "unpaired"]
  /\ device = [p \in Phones |-> None]
  /\ keychain = [p \in Phones |-> None]
  /\ phase = [p \in Phones |-> "idle"]
  /\ cookie = [p \in Phones |-> None]
  /\ jars = [p \in Phones |-> <<None>>]

-----------------------------------------------------------------------------
(* Calls.                                                                  *)

Is(k, kind, at) == calls[k] # None /\ calls[k].kind = kind /\ calls[k].at = at

\* A thread of the server is at work on it.
Handled(k) == calls[k].at \in {"redeemed", "touching", "matched"}

\* The cookie of the client in use.
Jar(p) == jars[p][Len(jars[p])]

\* The client in use makes the request.
NewCall(p, kind, sends, tick) ==
  [phone |-> p, kind |-> kind, client |-> Len(jars[p]), sends |-> sends,
   tick |-> tick, at |-> "sent", gets |-> None]

Answer(k, at, gets) == calls' = [calls EXCEPT ![k].at = at, ![k].gets = gets]

\* The request or its answer is lost, or the phone stops waiting: a transport error.
Lose(k) ==
  /\ calls[k] # None
  /\ ~Handled(k)
  /\ calls[k].at # "lost"
  /\ Answer(k, "lost", None)
  /\ UNCHANGED <<codes, registry, session, phone>>

-----------------------------------------------------------------------------
(* The server.  `touch' stands for the registry's lock: only `match' keeps *)
(* it over a load and a save that other threads could come between.        *)

Unlocked == touch = None

\* `issue_code', for the Mac's owner: replaces the outstanding code.
IssueCode(c) ==
  /\ Unlocked
  /\ c \notin issued
  /\ code' = c
  /\ wrong' = 0
  /\ issued' = issued \cup {c}
  /\ UNCHANGED <<registry, session, calls, phone>>

\* The code's five minutes pass.
CodeExpires ==
  /\ code # None
  /\ code' = None
  /\ wrong' = 0
  /\ UNCHANGED <<issued, registry, session, calls, phone>>

\* `consume' forgets the code it accepts, or counts a failure against it.
ConsumeKept(accepted) == UNCHANGED <<code, wrong>>
ConsumeOneMore(accepted) ==
  IF accepted \/ code = None \/ wrong >= Attempts
  THEN code' = None /\ wrong' = 0
  ELSE code' = code /\ wrong' = wrong + 1
Consume(accepted) ==
  IF accepted \/ code = None \/ wrong + 1 >= Attempts
  THEN code' = None /\ wrong' = 0
  ELSE code' = code /\ wrong' = wrong + 1

Redeem(k) ==
  /\ Is(k, "pair", "sent")
  /\ Unlocked
  /\ LET accepted == code # None /\ calls[k].sends = code
     IN /\ Consume(accepted)
        /\ Answer(k, IF accepted THEN "redeemed" ELSE "refused", None)
  /\ UNCHANGED <<issued, registry, session, phone>>

\* `pair' takes the lock again and adds a device the registry has not seen.
Enroll(k, d) ==
  /\ Is(k, "pair", "redeemed")
  /\ Unlocked
  /\ origin[d] = None
  /\ file' = file \cup {d}
  /\ origin' = [origin EXCEPT ![d] = calls[k].sends]
  /\ Answer(k, "ok", d)
  /\ UNCHANGED <<codes, revoked, touch, session, phone>>

\* The file cannot be read or written: the code is spent all the same.
EnrollFails(k) ==
  /\ Is(k, "pair", "redeemed")
  /\ Unlocked
  /\ Answer(k, "refused", None)
  /\ UNCHANGED <<codes, registry, session, phone>>

\* `match' looks the token up; once a minute it goes on to move last_seen.
Match(k, due) ==
  /\ Is(k, "login", "sent")
  /\ Unlocked
  /\ touch' = IF due /\ calls[k].sends \in file
              THEN [call |-> k, loaded |-> file] ELSE touch
  /\ Answer(k, IF calls[k].sends \notin file THEN "401"
               ELSE IF due THEN "touching" ELSE "matched", None)
  /\ UNCHANGED <<codes, file, origin, revoked, session, phone>>

\* It stores the whole list it has loaded and gives the lock back.
Touch(k) ==
  /\ Is(k, "login", "touching")
  /\ file' = touch.loaded
  /\ touch' = None
  /\ Answer(k, "matched", None)
  /\ UNCHANGED <<codes, origin, revoked, session, phone>>

\* `start_session' takes the lock again, whatever has happened to the device.
StartSession(k) ==
  /\ Is(k, "login", "matched")
  /\ Unlocked
  /\ LET new == [device |-> calls[k].sends, life |-> life]
     IN /\ sessions' = sessions \cup {new}
        /\ Answer(k, "ok", new)
  /\ UNCHANGED <<codes, registry, life, phone>>

\* `session': the cookie's session while its device is still paired.
AcceptsAnySession(c) == c \in sessions
Accepts(c) == c \in sessions /\ c.device \in file

\* GET /api/status with the cookie, or without one.
Status(k) ==
  /\ Is(k, "probe", "sent")
  /\ Unlocked
  /\ Answer(k, IF calls[k].sends # None /\ Accepts(calls[k].sends) THEN "ok" ELSE "401", None)
  /\ sessions' = {c \in sessions : c = calls[k].sends => c.device \in file}
  /\ UNCHANGED <<codes, registry, life, phone>>

\* `match' without the lock.
RevokeUnlocked(d) ==
  /\ d \in file
  /\ file' = file \ {d}
  /\ revoked' = revoked \cup {d}
  /\ sessions' = {c \in sessions : c.device # d}
  /\ UNCHANGED <<codes, origin, touch, life, calls, phone>>

\* `revoke', for the Mac's owner.
Revoke(d) ==
  /\ Unlocked
  /\ d \in file
  /\ file' = file \ {d}
  /\ revoked' = revoked \cup {d}
  /\ sessions' = {c \in sessions : c.device # d}
  /\ UNCHANGED <<codes, origin, touch, life, calls, phone>>

\* The server ends with all its threads and another starts: codes and sessions
\* are gone, the file stays, and what it was handling is never answered.
Restart ==
  /\ life < Lives
  /\ life' = life + 1
  /\ code' = None /\ wrong' = 0
  /\ touch' = None
  /\ sessions' = {}
  /\ calls' = [k \in Calls |->
       IF calls[k] # None /\ Handled(k)
       THEN [calls[k] EXCEPT !.at = "lost"] ELSE calls[k]]
  /\ UNCHANGED <<issued, file, origin, revoked, phone>>

-----------------------------------------------------------------------------
(* The phone.  Every action is one stretch of its main actor between two   *)
(* awaits; which pairing a call was sent under is not looked at afterwards.*)

ForgetHalf(p) ==
  /\ state' = [state EXCEPT ![p] = "unpaired"]
  /\ device' = [device EXCEPT ![p] = None]
  /\ phase' = [phase EXCEPT ![p] = "idle"]
  /\ cookie' = [cookie EXCEPT ![p] = None]
  /\ jars' = [jars EXCEPT ![p] = Append(@, None)]
  /\ UNCHANGED keychain

\* `forget': the token, the cookies and the client go.
Forget(p) ==
  /\ state' = [state EXCEPT ![p] = "unpaired"]
  /\ device' = [device EXCEPT ![p] = None]
  /\ keychain' = [keychain EXCEPT ![p] = None]
  /\ phase' = [phase EXCEPT ![p] = "idle"]
  /\ cookie' = [cookie EXCEPT ![p] = None]
  /\ jars' = [jars EXCEPT ![p] = Append(@, None)]

\* Bound: the phones may still make a client besides the ones they have.
MayForget == SumFunction([p \in Phones |-> Len(jars[p])]) < Clients

Drop(k) == calls' = [calls EXCEPT ![k] = None]
Then(k, next) == calls' = [calls EXCEPT ![k] = next]

\* The user scans or types a code; the view is busy while it pairs.
Scan(p, k, c) ==
  /\ state[p] = "unpaired"
  /\ calls[k] = None
  /\ \A j \in Calls : calls[j] # None => calls[j].phone # p \/ calls[j].kind # "pair"
  /\ MayForget
  /\ state' = [state EXCEPT ![p] = "pairing"]
  /\ Then(k, NewCall(p, "pair", c, FALSE))
  /\ UNCHANGED <<codes, registry, session, device, keychain, phase, cookie, jars>>

\* `pair' goes on: the token is stored and `connect' logs in with it.
Paired(k) ==
  /\ Is(k, "pair", "ok")
  /\ LET p == calls[k].phone
         d == calls[k].gets
     IN /\ keychain' = [keychain EXCEPT ![p] = d]
        /\ cookie' = [cookie EXCEPT ![p] = None]
        /\ state' = [state EXCEPT ![p] = "paired"]
        /\ device' = [device EXCEPT ![p] = d]
        /\ phase' = [phase EXCEPT ![p] = "connecting"]
        /\ Then(k, NewCall(p, "login", d, FALSE))
  /\ UNCHANGED <<codes, registry, session, jars>>

\* `fail', also when the Keychain does not take the token.
PairFailed(k) ==
  /\ Is(k, "pair", "refused") \/ Is(k, "pair", "lost") \/ Is(k, "pair", "ok")
  /\ LET p == calls[k].phone
     IN /\ state' = [state EXCEPT ![p] = "unpaired"]
        /\ device' = [device EXCEPT ![p] = None]
  /\ Drop(k)
  /\ UNCHANGED <<codes, registry, session, keychain, phase, cookie, jars>>

\* `connect' from a retry, a pull to refresh or the app coming to the front: it
\* sends the stored token.
Connect(p, k) ==
  /\ state[p] = "paired"
  /\ calls[k] = None
  /\ phase' = [phase EXCEPT ![p] = "connecting"]
  /\ Then(k, NewCall(p, "login", keychain[p], FALSE))
  /\ UNCHANGED <<codes, registry, session, state, device, keychain, cookie, jars>>

\* After a login that was not refused the phone probes, if it is still paired.
Check(k) ==
  LET p == calls[k].phone
  IN IF state[p] = "paired" THEN Then(k, NewCall(p, "probe", jars'[p][Len(jars[p])], FALSE))
     ELSE Drop(k)

\* The new cookie goes to the client that logged in and to the session.
LoggedIn(k) ==
  /\ Is(k, "login", "ok")
  /\ LET p == calls[k].phone
     IN /\ cookie' = [cookie EXCEPT ![p] = calls[k].gets]
        /\ jars' = [jars EXCEPT ![p][calls[k].client] = calls[k].gets]
        /\ phase' = [phase EXCEPT ![p] = "connected"]
        /\ Check(k)
  /\ UNCHANGED <<codes, registry, session, state, device, keychain>>

LoginLost(k) ==
  /\ Is(k, "login", "lost")
  /\ phase' = [phase EXCEPT ![calls[k].phone] = "offline"]
  /\ UNCHANGED jars
  /\ Check(k)
  /\ UNCHANGED <<codes, registry, session, state, device, keychain, cookie>>

\* `unauthorized': whatever the phone is paired as by now.
LoginRefused(k) ==
  /\ Is(k, "login", "401")
  /\ MayForget
  /\ Forget(calls[k].phone)
  /\ Drop(k)
  /\ UNCHANGED <<codes, registry, session>>

\* `tick': the loop probes while the phone is paired.
Probe(p, k) ==
  /\ state[p] = "paired"
  /\ calls[k] = None
  /\ Then(k, NewCall(p, "probe", Jar(p), TRUE))
  /\ UNCHANGED <<codes, registry, session, phone>>

\* A 401 counts only while the client that probed has a cookie by now.
Refuses(k) == Is(k, "probe", "401") /\ jars[calls[k].phone][calls[k].client] # None

\* The Mac answered: a tick of a phone that is not connected connects it.
Reached(k) ==
  /\ Is(k, "probe", "ok") \/ (Is(k, "probe", "401") /\ ~Refuses(k))
  /\ LET p == calls[k].phone
     IN IF calls[k].tick /\ state[p] = "paired" /\ phase[p] \in {"offline", "idle"}
        THEN /\ phase' = [phase EXCEPT ![p] = "connecting"]
             /\ Then(k, NewCall(p, "login", keychain[p], FALSE))
        ELSE Drop(k) /\ UNCHANGED phase
  /\ UNCHANGED <<codes, registry, session, state, device, keychain, cookie, jars>>

Unreached(k) ==
  /\ Is(k, "probe", "lost")
  /\ LET p == calls[k].phone
     IN phase' = [phase EXCEPT ![p] =
          IF calls[k].tick /\ @ = "connected" THEN "offline" ELSE @]
  /\ Drop(k)
  /\ UNCHANGED <<codes, registry, session, state, device, keychain, cookie, jars>>

\* `revoked', from a probe.
ProbeRefused(k) ==
  /\ Refuses(k)
  /\ MayForget
  /\ Forget(calls[k].phone)
  /\ Drop(k)
  /\ UNCHANGED <<codes, registry, session>>

\* `revoked', from a page of the web view, which is there while connected.
PageRefused(p) ==
  /\ state[p] = "paired" /\ phase[p] = "connected"
  /\ Unlocked
  /\ cookie[p] # None => ~Accepts(cookie[p])
  /\ MayForget
  /\ Forget(p)
  /\ UNCHANGED <<codes, registry, session, calls>>

\* The user unpairs.
Unpair(p) ==
  /\ state[p] = "paired"
  /\ MayForget
  /\ Forget(p)
  /\ UNCHANGED <<codes, registry, session, calls>>

\* The app is started again: what it had in memory is gone and its calls with it.
\* A request the server is handling ends first, which makes no difference.
Relaunch(p) ==
  /\ \A k \in Calls : calls[k] # None /\ calls[k].phone = p => ~Handled(k)
  /\ device' = [device EXCEPT ![p] = keychain[p]]
  /\ state' = [state EXCEPT ![p] = IF keychain[p] = None THEN "unpaired" ELSE "paired"]
  /\ phase' = [phase EXCEPT ![p] = "idle"]
  /\ cookie' = [cookie EXCEPT ![p] = None]
  /\ jars' = [jars EXCEPT ![p] = <<None>>]
  /\ calls' = [k \in Calls |->
       IF calls[k] # None /\ calls[k].phone = p THEN None ELSE calls[k]]
  /\ UNCHANGED <<codes, registry, session, keychain>>

-----------------------------------------------------------------------------
ServerStep(k) ==
  \/ Redeem(k) \/ EnrollFails(k) \/ \E d \in Devices : Enroll(k, d)
  \/ \E due \in BOOLEAN : Match(k, due)
  \/ Touch(k) \/ StartSession(k) \/ Status(k)

OwnerStep ==
  \/ \E c \in Codes : IssueCode(c)
  \/ \E d \in Devices : Revoke(d)

PhoneStep(k) ==
  \/ Paired(k) \/ PairFailed(k)
  \/ LoggedIn(k) \/ LoginLost(k) \/ LoginRefused(k)
  \/ Reached(k) \/ Unreached(k) \/ ProbeRefused(k)

UserStep(p) ==
  \/ \E k \in Calls : Connect(p, k) \/ Probe(p, k) \/ \E c \in Codes : Scan(p, k, c)
  \/ PageRefused(p) \/ Unpair(p) \/ Relaunch(p)

PairingNext ==
  \/ OwnerStep \/ CodeExpires \/ Restart
  \/ \E k \in Calls : ServerStep(k) \/ PhoneStep(k) \/ Lose(k)
  \/ \E p \in Phones : UserStep(p)

PairingSpec == PairingInit /\ [][PairingNext]_pairingVars

-----------------------------------------------------------------------------
(* What the Mac's owner and a phone rely on.                               *)

\* A code pairs one device at most, however many phones redeem it at once, and
\* whatever is issued, expires, fails or restarts meanwhile.
CodePairsOnce ==
  \A d, e \in Devices : origin[d] # None /\ origin[d] = origin[e] => d = e

\* A device that was revoked stays out of the devices file: no thread of the
\* server writes back a list it loaded before.
RevokedStaysOut == revoked \cap file = {}

\* A revoked device is refused from then on, even when a login that was under way
\* when it was revoked has started a session for it since.
RevokedRefused ==
  [][\A k \in Calls : Is(k, "probe", "sent") /\ Is(k, "probe", "ok")' =>
       calls[k].sends.device \notin revoked]_pairingVars

\* The pairing a phone shows is the one it would come back with after a relaunch,
\* whichever answers came late: a paired phone holds its own device's token and
\* an unpaired one holds none.
ShowsKeychain ==
  \A p \in Phones :
    keychain[p] = device[p] /\ (state[p] = "paired" <=> device[p] # None)

\* Claim: a phone stays paired until its user unpairs it or the Mac revokes it.
PairedUntilRevoked ==
  [][\A p \in Phones : keychain[p] # None /\ keychain'[p] # keychain[p] =>
       keychain[p] \in revoked \/ Unpair(p)]_pairingVars
=============================================================================
