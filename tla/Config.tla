------------------------------- MODULE Config -------------------------------
(***************************************************************************)
(* How a process resolves its configuration (internal/config), and what it *)
(* hands to the daemon it spawns (Config.Env, daemon.Spawn).               *)
(*                                                                         *)
(* A path or a word is a sequence of names, empty for the empty string;    *)
(* an absolute path begins with "root".  The text of a duration is a       *)
(* number and its unit; idle stands for it and for the other durations,    *)
(* hops for the numbers.                                                   *)
(***************************************************************************)
EXTENDS Integers, Sequences

CONSTANTS
  NotSet,          \* a flag, a variable or a key that is absent
  DefaultFile,     \* the file found in the default locations, as settings
  DefaultStateDir, \* $XDG_STATE_HOME/sonata
  Second,          \* in nanoseconds
  Word             \* what paths and levels are made of


Words == {"state_dir", "socket", "database", "log_level"}
Keys  == Words \cup {"idle", "hops"}

\* What a key may be set to.
Texts(k) ==
  CASE k \in Words  -> Seq(Word)
    [] k = "idle"   -> Int \X {"", "ns", "s"}
    [] k = "hops"   -> Int

IsSettings(s) ==
  /\ s = [k \in Keys |-> s[k]]
  /\ \A k \in Keys : s[k] = NotSet \/ s[k] \in Texts(k)

IsSources(src) == IsSettings(src.flags) /\ IsSettings(src.env) /\ IsSettings(src.file)

ASSUME ConfigAssumption ==
  /\ Second \in Nat \ {0}
  /\ {"root", "cwd", "sonata.sock", "sonata.db", "info"} \subseteq Word
  /\ DefaultStateDir \in Seq(Word)
  /\ IsSettings(DefaultFile)
  /\ \A k \in Keys : NotSet \notin Texts(k)

NoSettings == [k \in Keys |-> NotSet]

Defaults ==
  [k \in Keys |->
     CASE k = "state_dir" -> DefaultStateDir
       [] k = "log_level" -> <<"info">>
       [] k = "idle"      -> <<0, "s">>
       [] k = "hops"      -> 100
       [] OTHER           -> <<>>]

\* A flag of the root command that was given, even if empty.  The flag for idle
\* belongs to up and daemon and is not bound to its key.
Flagged(k, src) == k \in Words /\ src.flags[k] # NotSet

\* A variable that is set and not empty.
InEnv(k, src) == src.env[k] # NotSet /\ (k \in Words => src.env[k] # <<>>)

\* What viper finds for a key: flag, variable, file, default.
Get(k, src) ==
  IF Flagged(k, src) THEN src.flags[k]
  ELSE IF InEnv(k, src) THEN src.env[k]
  ELSE IF src.file[k] # NotSet THEN src.file[k]
  ELSE Defaults[k]

\* An absolute path; the empty one stays empty.
Expand(path) ==
  IF path = <<>> \/ path[1] = "root" THEN path ELSE <<"root", "cwd">> \o path

\* derive: an explicit path, or one under the state directory.
Derive(path, dir, name) == IF path = <<>> THEN Append(dir, name) ELSE Expand(path)

\* GetDuration: a number without a unit is in nanoseconds.
ParseDuration(text) == IF text[2] = "s" THEN text[1] * Second ELSE text[1]

\* Duration.String.
DurationString(d) == IF d % Second = 0 THEN <<d \div Second, "s">> ELSE <<d, "ns">>

\* Load.
Load(src) ==
  LET dir == Expand(Get("state_dir", src))
  IN  [k \in Keys |->
         CASE k = "state_dir" -> dir
           [] k = "socket"    -> Derive(Get(k, src), dir, "sonata.sock")
           [] k = "database"  -> Derive(Get(k, src), dir, "sonata.db")
           [] k = "idle"      -> ParseDuration(Get(k, src))
           [] OTHER           -> Get(k, src)]

\* Mutated form: a field was not added to Env.
Env_ForgetsDatabase(cfg) ==
  [cfg EXCEPT !["idle"] = DurationString(@), !["database"] = NotSet]

\* Config.Env: every field, as text.
Env(cfg) == [cfg EXCEPT !["idle"] = DurationString(@)]

\* The child's sources: no flag but --idle-timeout, and that only when positive;
\* its parent's variables under Env, of which the last one wins; and the default
\* file, whatever --config the parent had.
ChildSources(cfg, environ, idle) ==
  [flags |-> [NoSettings EXCEPT !["idle"] = IF idle > 0 THEN DurationString(idle) ELSE NotSet],
   env   |-> [k \in Keys |-> IF Env(cfg)[k] # NotSet THEN Env(cfg)[k] ELSE environ[k]],
   file  |-> DefaultFile]

\* up and daemon: the flag if it was given, else the configuration.
IdleTimeout(src) ==
  IF src.flags["idle"] # NotSet THEN ParseDuration(src.flags["idle"]) ELSE Load(src)["idle"]

=============================================================================
