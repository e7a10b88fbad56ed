------------------------------ MODULE MCCommand ------------------------------
(***************************************************************************)
(* A small instance of Command: one action, its definition in several      *)
(* layouts, a join, a definition that is half a join, and commands whose   *)
(* configuration comes from flags, variables, a file or nowhere.           *)
(***************************************************************************)
EXTENDS Command, TLC

CONSTANTS c1, c2

Symmetry == Permutations(Commands)

TheNames  == {"resize"}
TheQueues == {"in", "also", "out"}

TheWords ==
  {"root", "cwd", "state", "own", "dir", "lost", "sock", "data.db", "sonata.sock", "sonata.db",
   "info", "warn"}

TheStateDir == <<"root", "state">>
TheFile     == [NoSettings EXCEPT !["log_level"] = <<"warn">>, !["hops"] = 7]

Task(layout) ==
  [command |-> <<"run">>, timeout |-> Unset, unknownField |-> FALSE, layout |-> layout]

In(q, filter, correlate) == [queue |-> q, filter |-> filter, correlate |-> correlate]

Plain ==
  [name |-> "resize", actor |-> "subprocess", inputs |-> <<In("in", "bool", "")>>,
   output |-> "out", concurrency |-> Unset, maxAttempts |-> 2, joinTimeout |-> Unset,
   instr |-> Task("plain"), layout |-> "plain", form |-> "json", fault |-> "none"]

Styled == [Plain EXCEPT !.layout = "other", !.instr = Task("other")]
Yaml   == [Styled EXCEPT !.form = "yaml"]
Joined ==
  [Plain EXCEPT !.inputs = <<In("in", "", "string"), In("also", "", "dyn")>>,
                !.joinTimeout = [value |-> 60, spelling |-> "other"]]
Half   == [Joined EXCEPT !.inputs[2].correlate = "", !.joinTimeout = Unset]
Typo   == [Plain EXCEPT !.fault = "unknown field"]

NoSources == [flags |-> NoSettings, env |-> NoSettings, file |-> TheFile]

\* A daemon of the default socket in a state directory of its own.
Elsewhere ==
  [NoSources EXCEPT !.flags["state_dir"] = <<"own">>,
                    !.flags["socket"] = <<"root", "state", "sonata.sock">>]

\* A relative path as a flag, a directory and a bare duration as variables, the
\* rest from a file given by --config.
Mixed ==
  [NoSources EXCEPT !.flags["database"] = <<"data.db">>, !.flags["log_level"] = <<>>,
                    !.env["state_dir"] = <<"dir">>, !.env["idle"] = <<5, "">>,
                    !.file = [NoSettings EXCEPT !["hops"] = 3, !["socket"] = <<"sock">>,
                                                !["state_dir"] = <<"lost">>]]
Timed  == [Mixed EXCEPT !.flags["idle"] = <<3, "s">>]
Never  == [Mixed EXCEPT !.flags["idle"] = <<0, "s">>]
NoDir  == [NoSources EXCEPT !.flags["state_dir"] = <<>>]

Ask(op, src, doc, form, fault) ==
  [op |-> op, src |-> src, doc |-> doc, form |-> form, name |-> "resize", fault |-> fault]

On(op)           == Ask(op, NoSources, None, "none", "none")
With(op, src)    == Ask(op, src, None, "none", "none")
Apply(doc, form) == Ask("apply", NoSources, doc, form, "none")
Post(doc)        == Ask("post", NoSources, doc, "none", "none")

TheInvocations ==
  {On("send"), On("enable"), On("disable"), On("show"),
   Apply(Plain, "json"), Apply(Yaml, "yaml"), Apply(Joined, "yaml"),
   Apply(Yaml, "json"), Apply(Typo, "yaml"), Apply(Half, "yaml"),
   Post(Styled), Post(Half),
   With("up", Timed), With("up", Never), With("up", NoDir),
   With("status", NoSources), With("daemon", Elsewhere),
   [On("disable") EXCEPT !.name = ""], Ask("send", NoSources, None, "none", "null"),
   Ask("send", NoSources, None, "none", "input"), Ask("apply", NoSources, None, "none", "read"),
   Ask("show", NoSources, None, "none", "input"), Ask("show", NoSources, None, "none", "args"),
   Ask("status", NoSources, None, "none", "output")}

\* What earlier commands have left in a database.
Row(doc, on) == [def |-> Canonical(doc), enabled |-> on]
Histories == {<<>>, <<Row(Plain, TRUE)>>, <<Row(Joined, TRUE), Row(Plain, FALSE)>>}

Resumed ==
  /\ \E V \in Histories :
       db = [f \in Databases |-> [versions |-> [n \in Names |-> V], messages |-> {}]]
  /\ InitProcesses

ResumedSpec == Resumed /\ [][Next]_vars
=============================================================================
