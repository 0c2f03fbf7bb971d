----------------------------- MODULE MCBrowser ------------------------------
(* Small instances of what the browser works out by itself: the fetching   *)
(* hook, what the pages show of their loads, a report's text, the form     *)
(* that starts a run, the robots and their looks.  They share no state, so *)
(* each behaviour is of one of them and the others stay as they began.     *)
EXTENDS UseApi, Views, Markdown, Launch, Robots, Look

VARIABLE part       \* the part at work

parts == <<vars, wvars, mvars, lvars, bvars, kvars, part>>

Two == <<"claude", "codex">>

\* Reports of two kinds in two months, two of them on one day, and one that no search finds.
Report(kind, month, day, path, found) ==
    [kind |-> kind, month |-> month, day |-> day, path |-> path, found |-> found]
Four ==
    {Report("brief", 1, 3, 1, TRUE), Report("brief", 2, 1, 2, TRUE), Report("plan", 2, 1, 3, TRUE),
     Report("plan", 1, 5, 4, FALSE)}
TenToTwenty == [min |-> 10, max |-> 20]
BelowAndAbove == {Absent, 5, 30}
SomeOrGarbled == {Garbled, 300}

BrowserInit ==
    /\ part \in {"hook", "pages", "report", "form", "robot", "look"}
    /\ UseApiInit /\ (part # "hook" => \A h \in Hooks : key[h] = CHOOSE k \in Keys : TRUE)
    /\ RobotsInit /\ (part # "robot" => run = <<>>)
    /\ LookInit /\ (part # "look" => raw = NoText)
    /\ LaunchInit /\ (part # "form" => /\ offered.engine = "claude" /\ offered.subject = ""
                                       /\ offered.models = [e \in Installed |-> NoModel]
                                       /\ usable = {})
    /\ ViewsInit /\ (part # "pages" => office = <<Quiet, Quiet>> /\ view = "home")
    /\ IF part = "report" THEN MarkdownInit ELSE document = <<>>

BrowserNext ==
    \/ part = "hook" /\ UseApiNext /\ UNCHANGED <<wvars, mvars, lvars, bvars, kvars, part>>
    \/ part = "pages" /\ ViewsNext /\ UNCHANGED <<vars, mvars, lvars, bvars, kvars, part>>
    \/ part = "report" /\ MarkdownNext /\ UNCHANGED <<vars, wvars, lvars, bvars, kvars, part>>
    \/ part = "form" /\ LaunchNext /\ UNCHANGED <<vars, wvars, mvars, bvars, kvars, part>>
    \/ part = "robot" /\ RobotsNext /\ UNCHANGED <<vars, wvars, mvars, lvars, kvars, part>>
    \/ part = "look" /\ LookNext /\ UNCHANGED <<vars, wvars, mvars, lvars, bvars, part>>

BrowserSpec == BrowserInit /\ [][BrowserNext]_parts

BrowserTypeOK ==
    CASE part = "hook" -> UseApiTypeOK
      [] part = "pages" -> ViewsTypeOK
      [] part = "report" -> Len(document) <= MaxLines
      [] part = "form" -> LaunchTypeOK
      [] part = "robot" -> RobotsTypeOK
      [] part = "look" -> LookTypeOK
=============================================================================
