-------------------------------- MODULE Startup --------------------------------
(***************************************************************************)
(* The start of the web program (cmd/ankiced-web): where its settings come *)
(* from (config/loader.go), which address it takes and where it opens the  *)
(* browser, what the settings amount to, the configuration the page saves  *)
(* and the next start with it.  Two processes may run at the same time,    *)
(* and another program may hold a port.                                    *)
(*                                                                         *)
(* A source gives a setting nothing, {}, or a value, {v}; a variable of    *)
(* the environment that is empty or is no number or switch gives nothing.  *)
(***************************************************************************)
EXTENDS Integers, FiniteSets

CONSTANTS
  Given,      \* the ways to start the program: records of file, env and flags
  Ports,      \* addresses, with Default and those of Ephemeral
  Default,    \* "127.0.0.1:8080"
  Ephemeral,  \* what the system may give for port 0
  Contested,  \* those that another program may take
  Switched,   \* the database the user may switch to
  Processes   \* 1..n, the starts of the program

Paths == {"db_path", "anki_account"}
Numbers == {"backup_keep_last_n", "workers", "default_page_size", "pragma_busy_timeout"}
Switches == {"force_apply", "verbose", "full_diff"}
Texts == {"http_addr", "report_file", "pragma_journal_mode", "pragma_synchronous"}
Settings == Paths \union Numbers \union Switches \union Texts

\* A source gives each setting one value of its kind or none.
Source(source) ==
  /\ DOMAIN source = Settings
  /\ \A s \in Settings : \A v, w \in source[s] : v = w
  /\ \A s \in Numbers : source[s] \subseteq Int
  /\ \A s \in Switches : source[s] \subseteq BOOLEAN
  /\ source["http_addr"] \subseteq Ports \union {""}

ASSUME StartupAssumption ==
  /\ \A g \in Given : Source(g.file) /\ Source(g.env) /\ Source(g.flags)
  /\ Default \in Ports /\ Ephemeral \subseteq Ports /\ Contested \subseteq Ports
  /\ Switched # ""
  /\ Processes \subseteq Nat \ {0}

VARIABLES
  given,    \* how the user starts the program
  from,     \* what each process was started with: given, or the saved file alone
  at,       \* what each process is doing
  cfg,      \* its settings
  browsing, \* whether it still looks for its server to open the browser
  opened,   \* who answered when it opened the browser, or Free
  holder,   \* who listens on each port
  saved,    \* ankiced.config.json: "none", "broken" or "whole", and its contents
  kept,     \* the settings of the process that saved it, and of each process that read it
  taken     \* the processes whose port another took between their probe and now

procs == <<from, at, cfg, browsing, opened>>
vars == <<given, procs, holder, saved, kept, taken>>

Free == 0
Other == -1

-----------------------------------------------------------------------------
(* Loader.Load.                                                            *)

Nothing == [s \in Settings |-> {}]
Zero(s) == IF s \in Numbers THEN 0 ELSE IF s \in Switches THEN FALSE ELSE ""
Defaults ==
  [s \in Settings |->
     CASE s = "backup_keep_last_n" -> 3 [] s = "workers" -> 4
       [] s = "default_page_size" -> 10 [] s = "pragma_busy_timeout" -> 5000
       [] s = "pragma_journal_mode" -> "WAL" [] s = "pragma_synchronous" -> "NORMAL"
       [] s = "http_addr" -> Default
       [] OTHER -> Zero(s)]

\* merge: what is zero in the file is not there.
FileSays(file) ==
  {s \in Settings : \E v \in file[s] : IF s \in Numbers THEN v > 0 ELSE v # Zero(s)}
\* applyEnv; two settings have no variable.
EnvSays(env) ==
  {s \in Settings \ {"report_file", "full_diff"} : \E v \in env[s] :
     /\ s \in Paths \union Texts => v # ""
     /\ s \in {"default_page_size", "pragma_busy_timeout"} => v > 0}
\* A flag counts if it is given, a path if it is not empty.
FlagsSay(flags) == {s \in Settings : \E v \in flags[s] : s \in Paths => v # ""}

Override(settings, source, said) ==
  [s \in Settings |-> IF s \in said THEN CHOOSE v \in source[s] : TRUE ELSE settings[s]]

\* defaultPathByOS: the collection of a profile.
Home(account) == IF account = "" THEN "User 1" ELSE account
Located(settings) ==
  [settings EXCEPT !.db_path = IF @ = "" THEN Home(settings.anki_account) ELSE @]

FromFile(file) == Override(Defaults, file, FileSays(file))

\* A bug the project rules out: the environment is read after the flags.
LoadEnvLast(g) ==
  Located(Override(Override(FromFile(g.file), g.flags, FlagsSay(g.flags)), g.env, EnvSays(g.env)))
Load(g) ==
  Located(Override(Override(FromFile(g.file), g.env, EnvSays(g.env)), g.flags, FlagsSay(g.flags)))

-----------------------------------------------------------------------------
(* What the settings amount to: CleanupBackups, RunCleaner, handleIndex    *)
(* and clampPagination, Pragmas.normalize, main.                           *)

Upper(mode) == IF mode = "delete" THEN "DELETE" ELSE mode
Valid(mode) == mode # "bad"
Else(v, default) == IF v > 0 THEN v ELSE default
Filled(v, default) == IF v = "" THEN default ELSE v

Effect(settings) ==
  [settings EXCEPT
     !.anki_account = "",
     !.backup_keep_last_n = Else(@, 3), !.workers = Else(@, 1),
     !.default_page_size = Else(@, 10), !.pragma_busy_timeout = Else(@, 5000),
     !.http_addr = Filled(@, Default),
     !.pragma_journal_mode = Upper(Filled(@, "WAL")),
     !.pragma_synchronous = Upper(Filled(@, "NORMAL"))]

-----------------------------------------------------------------------------
(* A process.                                                              *)

Init ==
  /\ given \in Given
  /\ from = [p \in Processes |-> "nothing"]
  /\ at = [p \in Processes |-> "off"]
  /\ cfg = [p \in Processes |-> Defaults]
  /\ browsing = [p \in Processes |-> FALSE] /\ opened = [p \in Processes |-> Free]
  /\ holder = [a \in Ports |-> Free]
  /\ saved = [state |-> "none", file |-> Defaults]
  /\ kept = [saved |-> Defaults, read |-> [p \in Processes |-> Defaults]]
  /\ taken = {}

Goto(p, where) == at' = [at EXCEPT ![p] = where]

\* The saved configuration as a config file, and nothing else.
SavedAlone == [file |-> [s \in Settings |-> {saved.file[s]}], env |-> Nothing, flags |-> Nothing]

\* The program is started, as the user does it or with --config and the saved file;
\* that file, or a flag, may not be readable.
Start(p) ==
  /\ at[p] = "off" /\ \A q \in Processes : q < p => at[q] # "off"
  /\ \/ /\ from' = [from EXCEPT ![p] = "given"]
        /\ cfg' = [cfg EXCEPT ![p] = Load(given)]
        /\ Goto(p, "probing")
        /\ UNCHANGED kept
     \/ /\ saved.state = "whole"
        /\ from' = [from EXCEPT ![p] = "saved"]
        /\ cfg' = [cfg EXCEPT ![p] = Load(SavedAlone)]
        /\ kept' = [kept EXCEPT !.read = [@ EXCEPT ![p] = kept.saved]]
        /\ Goto(p, "probing")
     \/ /\ saved.state = "broken"
        /\ Goto(p, "ended")
        /\ UNCHANGED <<from, cfg, kept>>
  /\ UNCHANGED <<given, browsing, opened, holder, saved, taken>>

Address(p) == Filled(cfg[p].http_addr, Default)
Addressed(p, a) == [cfg EXCEPT ![p] = [@ EXCEPT !.http_addr = a]]

\* A bug the project rules out: the port is not tried before it is used.
ProbeNothing(p) ==
  /\ at[p] = "probing"
  /\ cfg' = Addressed(p, Address(p))
  /\ Goto(p, "opening")
  /\ UNCHANGED <<given, from, browsing, opened, holder, saved, kept, taken>>

\* resolveHTTPAddr listens and closes again; only the default address has a fallback.
Probe(p) ==
  /\ at[p] = "probing"
  /\ LET resolved == IF holder[Address(p)] = Free THEN {Address(p)}
                     ELSE {a \in Ephemeral : Address(p) = Default /\ holder[a] = Free}
     IN  \/ /\ \E a \in resolved : cfg' = Addressed(p, a)
            /\ Goto(p, "opening")
         \/ /\ resolved = {}
            /\ Goto(p, "ended") /\ UNCHANGED cfg
  /\ UNCHANGED <<given, from, browsing, opened, holder, saved, kept, taken>>

\* sqlite.Open refuses a mode that is not in its list; it may also fail otherwise.
Open(p) ==
  /\ at[p] = "opening"
  /\ \/ /\ Valid(cfg[p].pragma_journal_mode) /\ Valid(cfg[p].pragma_synchronous)
        /\ Goto(p, "listening")
        /\ browsing' = [browsing EXCEPT ![p] = TRUE]
     \/ Goto(p, "ended") /\ UNCHANGED browsing
  /\ UNCHANGED <<given, from, cfg, opened, holder, saved, kept, taken>>

\* Another takes port a that process p may have found free.
Loses(a, taker) ==
  taken' = taken \union {p \in Processes \ {taker} : at[p] \in {"opening", "listening"}
                                                   /\ cfg[p].http_addr = a}

\* ListenAndServe.  When it fails the process tidies up before it ends.
Listen(p) ==
  LET a == cfg[p].http_addr IN
  /\ at[p] = "listening"
  /\ IF holder[a] = Free
     THEN /\ holder' = [holder EXCEPT ![a] = p] /\ Loses(a, p)
          /\ Goto(p, "serving")
     ELSE Goto(p, "tidying") /\ UNCHANGED <<holder, taken>>
  /\ UNCHANGED <<given, from, cfg, browsing, opened, saved, kept>>

\* openBrowserWhenReady asks whoever answers, or gives up after eight seconds; the
\* context is cancelled only when the process is asked to end.
Browse(p) ==
  /\ browsing[p] /\ at[p] \in {"listening", "serving", "tidying"}
  /\ browsing' = [browsing EXCEPT ![p] = FALSE]
  /\ \/ /\ holder[cfg[p].http_addr] # Free
        /\ opened' = [opened EXCEPT ![p] = holder[cfg[p].http_addr]]
     \/ UNCHANGED opened
  /\ UNCHANGED <<given, from, at, cfg, holder, saved, kept, taken>>

\* The process ends, as it was asked to or not, and its settings with it.
End(p) ==
  /\ at[p] \notin {"off", "ended"}
  /\ Goto(p, "ended")
  /\ cfg' = [cfg EXCEPT ![p] = Defaults]
  /\ browsing' = [browsing EXCEPT ![p] = FALSE]
  /\ holder' = [a \in Ports |-> IF holder[a] = p THEN Free ELSE holder[a]]
  /\ UNCHANGED <<given, from, opened, saved, kept, taken>>

-----------------------------------------------------------------------------
(* handleConfigSave.                                                       *)

\* A bug the project rules out: a setting that the snapshot forgets.
SnapshotForgets(settings) == [settings EXCEPT !.workers = 0]
\* configSnapshot.
Snapshot(settings) == settings

Written(p) ==
  /\ saved' = [state |-> "whole", file |-> Snapshot(cfg'[p])]
  /\ kept' = [kept EXCEPT !.saved = cfg'[p]]

\* With a database path the program switches first.  os.WriteFile empties the file
\* before it writes, and either may fail; the switch stays.  Looked at only as long as
\* another process may still be started with the file.
Save(p) ==
  /\ at[p] = "serving" /\ \E q \in Processes : at[q] = "off"
  /\ cfg' = cfg \/ cfg' = [cfg EXCEPT ![p] = [@ EXCEPT !.db_path = Switched]]
  /\ \/ Written(p)
     \/ saved' = [saved EXCEPT !.state = "broken"] /\ UNCHANGED kept
     \/ UNCHANGED <<saved, kept>>
  /\ UNCHANGED <<given, from, at, browsing, opened, holder, taken>>

-----------------------------------------------------------------------------
(* Another program, which takes a port when it matters, and keeps it.      *)

OtherTakes ==
  /\ \A a \in Ports : holder[a] # Other
  /\ \E p \in Processes : at[p] \in {"probing", "opening", "listening"}
  /\ \E a \in Contested : holder[a] = Free /\ holder' = [holder EXCEPT ![a] = Other] /\ Loses(a, Other)
  /\ UNCHANGED <<given, procs, saved, kept>>

Over == (\A p \in Processes : at[p] = "ended") /\ UNCHANGED vars

Next ==
  \/ \E p \in Processes :
       \/ Start(p) \/ Probe(p) \/ Open(p) \/ Listen(p) \/ Browse(p) \/ End(p)
       \/ Save(p)
  \/ OtherTakes
  \/ Over

Spec == Init /\ [][Next]_vars

-----------------------------------------------------------------------------
(* Properties.                                                             *)

\* A value that means something whoever gives it.
Usable(s, v) == IF s \in Numbers THEN v > 0 ELSE IF s \in Switches THEN v ELSE v # ""

\* Source k gives setting s a usable value, and those before it give none at all.
Decides(sources, k, s) ==
  /\ \A j \in 1..(k - 1) : sources[j][s] = {}
  /\ \E v \in sources[k][s] : Usable(s, v)

\* A usable value of a setting is what the process has if no source of a higher priority
\* gives the setting any: a flag, then the environment, then the file; it has the
\* default if nobody gives one.  A profile counts only while nobody names the
\* database, and two settings are not read from the environment.
Precedence ==
  LET sources == <<given.flags, given.env, given.file>> IN
  \A p \in Processes : from[p] = "given" /\ at[p] = "probing" =>
    /\ \A s \in Settings, k \in 1..3 :
         Decides(sources, k, s) /\ ~(k = 2 /\ s \in {"report_file", "full_diff"}) =>
           {cfg[p][s]} = sources[k][s]
    /\ \A s \in Settings \ {"db_path"} :
         (\A k \in 1..3 : sources[k][s] = {}) => cfg[p][s] = Defaults[s]
    /\ (\A k \in 1..3 : sources[k]["db_path"] = {}) => cfg[p].db_path = Home(cfg[p].anki_account)

\* What is in effect in a process that was started with the saved file and nothing else
\* is what was in effect in the process that saved it, its database too: but for
\* the address, if that was the default one and was busy, and for the workers, if
\* their number was below one: that is saved as it is and then counts as not given.
RestartKeepsEffect ==
  \A p \in Processes :
    from[p] = "saved" /\ at[p] = "listening" =>
      LET was == Effect(kept.read[p]) IN
      \A s \in Settings :
        \/ Effect(cfg[p])[s] = was[s]
        \/ s = "http_addr" /\ was[s] = Default /\ cfg[p][s] \in Ephemeral
        \/ s = "workers" /\ kept.read[p][s] < 1

\* A process opens the browser at its own server and not at that of another process or
\* program, unless its port was taken between the probe and its own listening.
BrowserAtOwn == \A p \in Processes : opened[p] \in {Free, p} \/ p \in taken
=============================================================================
