------------------------------- MODULE UseApi -------------------------------
(***************************************************************************)
(* The fetching hook of the web app (api/use-api.ts) over its client       *)
(* (api/client.ts).  A mounted hook loads its key, again at every reload   *)
(* and, when it polls, at every tick of its interval.  Each run of its     *)
(* effect starts a request and the effect's cleanup marks the request      *)
(* before it as no longer live.  Requests may be answered in any order and *)
(* as late as they like.                                                   *)
(*                                                                         *)
(* What the server holds under a key is the number of writes it has        *)
(* accepted there: the values themselves do not matter here.  React runs   *)
(* an effect after the render that scheduled it, so an answer may arrive   *)
(* in between (due); it flushes pending effects before it renders again.   *)
(***************************************************************************)
EXTENDS Naturals, FiniteSets

CONSTANTS
    Hooks,        \* the useApi calls of the mounted components
    Keys,         \* what they load
    Errors,       \* ApiError reasons
    NoKey,        \* the key of a result that has not come, ""
    NoError,      \* an undefined error
    MaxWrites,    \* bound: writes accepted under one key
    MaxClicks,    \* bound: mounts, unmounts and changes of key
    MaxCalls      \* bound: requests under way per hook

ASSUME NullAssumption == NoKey \notin Keys /\ NoError \notin Errors
ASSUME BoundsAssumption == MaxWrites \in Nat /\ MaxClicks \in Nat /\ MaxCalls \in Nat

VARIABLES
    server,       \* the writes accepted under each key
    posts,        \* keys whose accepted write has not been answered to the page
    told,         \* the newest write the page was told of, by key
    mounted,      \* the hooks of mounted components
    polling,      \* those of them with an interval
    key,          \* the key each hook was last rendered with
    due,          \* hooks whose effect has not run since the last render
    calls,        \* requests under way
    result,       \* the state of each hook: {key, data, error}
    clicks

vars == <<server, posts, told, mounted, polling, key, due, calls, result, clicks>>

None == MaxWrites + 1                     \* no data
Waiting == MaxWrites + 2                  \* a request the server has not answered
Blank == [key |-> NoKey, data |-> None, error |-> NoError]

Data == 0..MaxWrites
Call == [hook: Hooks, key: Keys, live: BOOLEAN, data: Data \cup {None, Waiting},
         error: Errors \cup {NoError}]

UseApiTypeOK ==
    /\ server \in [Keys -> Data]
    /\ posts \subseteq Keys
    /\ told \in [Keys -> Data]
    /\ mounted \subseteq Hooks
    /\ polling \subseteq Hooks
    /\ key \in [Hooks -> Keys]
    /\ due \subseteq mounted
    /\ calls \subseteq Call
    /\ result \in [Hooks -> [key: Keys \cup {NoKey}, data: Data \cup {None},
                             error: Errors \cup {NoError}]]
    /\ clicks \in 0..MaxClicks

UseApiInit ==
    /\ server = [k \in Keys |-> 0]
    /\ posts = {}
    /\ told = [k \in Keys |-> 0]
    /\ mounted = {}
    /\ polling = {}
    /\ \E k \in Keys : key = [h \in Hooks |-> k]
    /\ due = {}
    /\ calls = {}
    /\ result = [h \in Hooks |-> Blank]
    /\ clicks = 0

---------------------------------------------------------------------------
(* What the hook returns *)

Current(h) == result[h].key = key[h]
Shown(h) == IF Current(h) THEN result[h].data ELSE None
ShownError(h) == IF Current(h) THEN result[h].error ELSE NoError

Of(h) == {c \in calls : c.hook = h}

---------------------------------------------------------------------------
(* The effects: the old request dies, a new one starts *)

Cleaned(h) == {IF c.hook = h THEN [c EXCEPT !.live = FALSE] ELSE c : c \in calls}

Started(h) == [hook |-> h, key |-> key[h], live |-> TRUE, data |-> Waiting, error |-> NoError]

Effect(h) ==
    /\ h \in due
    /\ Cardinality(Of(h)) < MaxCalls
    /\ calls' = Cleaned(h) \cup {Started(h)}
    /\ due' = due \ {h}
    /\ UNCHANGED <<server, posts, told, mounted, polling, key, result, clicks>>

\* The interval's callback, while the page is visible.
Tick(h) ==
    /\ h \in (mounted \cap polling) \ due
    /\ due' = due \cup {h}
    /\ UNCHANGED <<server, posts, told, mounted, polling, key, calls, result, clicks>>

Mount(h, k) ==
    /\ h \notin mounted
    /\ clicks < MaxClicks
    /\ mounted' = mounted \cup {h}
    /\ polling' \in {polling \ {h}, polling \cup {h}}
    /\ key' = [key EXCEPT ![h] = k]
    /\ result' = [result EXCEPT ![h] = Blank]
    /\ due' = due \cup {h}
    /\ clicks' = clicks + 1
    /\ UNCHANGED <<server, posts, told, calls>>

Unmount(h) ==
    /\ h \in mounted \ due
    /\ clicks < MaxClicks
    /\ mounted' = mounted \ {h}
    /\ calls' = Cleaned(h)
    /\ clicks' = clicks + 1
    /\ UNCHANGED <<server, posts, told, polling, key, due, result>>

\* The component renders the hook with another key (another run, month or report).
Rekey(h, k) ==
    /\ h \in mounted \ due
    /\ k # key[h]
    /\ clicks < MaxClicks
    /\ key' = [key EXCEPT ![h] = k]
    /\ due' = due \cup {h}
    /\ clicks' = clicks + 1
    /\ UNCHANGED <<server, posts, told, mounted, polling, calls, result>>

---------------------------------------------------------------------------
(* The client: request() gives the body, or one of its errors *)

Answer(c) ==
    /\ c.data = Waiting
    /\ \/ calls' = (calls \ {c}) \cup {[c EXCEPT !.data = server[c.key]]}
       \/ \E e \in Errors : calls' = (calls \ {c}) \cup {[c EXCEPT !.data = None, !.error = e]}
    /\ UNCHANGED <<server, posts, told, mounted, polling, key, due, result, clicks>>

Kept(c) == IF result[c.hook].key = c.key THEN result[c.hook].data ELSE None

Taken(c) ==
    IF c.error = NoError
    THEN [key |-> c.key, data |-> c.data, error |-> NoError]
    ELSE [key |-> c.key, data |-> Kept(c), error |-> c.error]

SettleAll(c) ==   \* mutant: without the live flag
    /\ c.data # Waiting
    /\ calls' = calls \ {c}
    /\ result' = [result EXCEPT ![c.hook] = Taken(c)]
    /\ UNCHANGED <<server, posts, told, mounted, polling, key, due, clicks>>

\* The promise settles: only the live request's answer reaches the state.
Settle(c) ==
    /\ c.data # Waiting
    /\ calls' = calls \ {c}
    /\ result' = IF c.live THEN [result EXCEPT ![c.hook] = Taken(c)] ELSE result
    /\ UNCHANGED <<server, posts, told, mounted, polling, key, due, clicks>>

---------------------------------------------------------------------------
(* Writes: this page posts and reloads when the post is answered; another  *)
(* tab, a run or a terminal command writes without telling it              *)

Accept(k) ==
    /\ server[k] < MaxWrites
    /\ server' = [server EXCEPT ![k] = @ + 1]
    /\ \/ posts' = posts \cup {k}
       \/ posts' = posts
    /\ UNCHANGED <<told, mounted, polling, key, due, calls, result, clicks>>

ReloadedIdle ==   \* mutant: a hook with a request under way is not reloaded
    due \cup {h \in mounted : \A c \in Of(h) : ~c.live}

ReloadedAll == due \cup Hooks   \* mutant: the hooks of components that are gone, too

Reloaded == due \cup mounted

Posted(k) ==
    /\ k \in posts
    /\ posts' = posts \ {k}
    /\ told' = [told EXCEPT ![k] = server[k]]
    /\ due' = Reloaded
    /\ UNCHANGED <<server, mounted, polling, key, calls, result, clicks>>

---------------------------------------------------------------------------

UseApiNext ==
    \/ \E h \in Hooks : Effect(h) \/ Tick(h) \/ Unmount(h)
    \/ \E h \in Hooks, k \in Keys : Mount(h, k) \/ Rekey(h, k)
    \/ \E c \in calls : Answer(c) \/ Settle(c)
    \/ \E k \in Keys : Accept(k) \/ Posted(k)

UseApiSpec == UseApiInit /\ [][UseApiNext]_vars

---------------------------------------------------------------------------
(* Properties *)

\* Once this page was told that its write is in, a hook with nothing under way and no
\* error shows that write or a later one: reload() is never lost, whatever it overtakes.
QuietShowsWrites ==
    \A h \in mounted \ due :
        (\A c \in Of(h) : ~c.live) /\ ShownError(h) = NoError => /\ Shown(h) # None
                                                                /\ Shown(h) >= told[key[h]]

Stays(h) == h \in mounted /\ h \in mounted' /\ key'[h] = key[h]

\* While a hook keeps its key it never goes back to an older answer, in whatever order
\* the answers come (the live flag).
NeverOlder ==
    [][\A h \in Hooks : Stays(h) /\ Shown(h) # None /\ Shown(h)' # None
                            => Shown(h)' >= Shown(h)]_vars
=============================================================================
