----------------------------- MODULE StartupProofs -----------------------------
(***************************************************************************)
(* Proofs about Startup, for any ways to give the settings, any ports and  *)
(* any number of processes.                                                *)
(***************************************************************************)
EXTENDS Startup, TLAPS

-----------------------------------------------------------------------------
(* Settings.                                                               *)

\* Settings of their kinds, and a database to open.
Proper(settings) ==
  /\ DOMAIN settings = Settings
  /\ \A s \in Numbers : settings[s] \in Int
  /\ \A s \in Switches : settings[s] \in BOOLEAN
  /\ settings["http_addr"] \in Ports \union {""}
Placed(settings) == settings["db_path"] # ""

LEMMA DefaultIs ==
  ASSUME NEW s \in Settings
  PROVE  Defaults[s] = CASE s = "backup_keep_last_n" -> 3 [] s = "workers" -> 4
                         [] s = "default_page_size" -> 10 [] s = "pragma_busy_timeout" -> 5000
                         [] s = "pragma_journal_mode" -> "WAL" [] s = "pragma_synchronous" -> "NORMAL"
                         [] s = "http_addr" -> Default
                         [] OTHER -> Zero(s)
  BY DEF Defaults

LEMMA DefaultNumbers ==
  /\ Defaults["backup_keep_last_n"] = 3 /\ Defaults["workers"] = 4
  /\ Defaults["default_page_size"] = 10 /\ Defaults["pragma_busy_timeout"] = 5000
<1>1. \A s \in {"backup_keep_last_n", "workers", "default_page_size", "pragma_busy_timeout"} : s \in Settings
  BY DEF Settings, Numbers
<1> QED
  BY <1>1, DefaultIs

LEMMA DefaultTexts ==
  /\ Defaults["pragma_journal_mode"] = "WAL" /\ Defaults["pragma_synchronous"] = "NORMAL"
  /\ Defaults["http_addr"] = Default
  /\ \A s \in Paths \union {"report_file"} : Defaults[s] = ""
<1>1. \A s \in {"pragma_journal_mode", "pragma_synchronous", "http_addr"} : s \in Settings
  BY DEF Settings, Texts
<1>2. Defaults["pragma_journal_mode"] = "WAL" /\ Defaults["pragma_synchronous"] = "NORMAL"
  BY <1>1, DefaultIs
<1>3. Defaults["http_addr"] = Default
  BY <1>1, DefaultIs
<1>4. ASSUME NEW s \in Paths \union {"report_file"} PROVE Defaults[s] = ""
  <2>1. s \in Settings /\ s \in {"db_path", "anki_account", "report_file"}
    BY DEF Settings, Paths, Texts
  <2>2. Zero(s) = ""
    BY <2>1 DEF Numbers, Switches, Zero
  <2>3. Defaults[s] = Zero(s)
    BY <2>1, DefaultIs
  <2> QED
    BY <2>2, <2>3
<1> QED
  BY <1>2, <1>3, <1>4

LEMMA DefaultSwitches == \A s \in Switches : Defaults[s] = FALSE
<1> SUFFICES ASSUME NEW s \in Switches PROVE Defaults[s] = FALSE
  OBVIOUS
<1>1. s \in Settings /\ s \in {"force_apply", "verbose", "full_diff"} /\ Zero(s) = FALSE
  BY DEF Settings, Switches, Numbers, Zero
<1>2. Defaults[s] = Zero(s)
  BY <1>1, DefaultIs
<1> QED
  BY <1>1, <1>2

LEMMA DefaultsProper == Proper(Defaults)
<1>1. DOMAIN Defaults = Settings
  BY DEF Defaults
<1>2. \A s \in Numbers : Defaults[s] \in Int
  BY DefaultNumbers DEF Numbers
<1>3. \A s \in Switches : Defaults[s] \in BOOLEAN
  BY DefaultSwitches
<1>4. Defaults["http_addr"] \in Ports
  BY DefaultTexts, StartupAssumption
<1> QED
  BY <1>1, <1>2, <1>3, <1>4 DEF Proper

\* A source puts a value of its own in the place of each setting it says something
\* about, and leaves the others.
LEMMA OverrideProper ==
  ASSUME NEW settings, Proper(settings), NEW source, Source(source), NEW said,
         said \subseteq Settings, \A s \in said : source[s] # {}
  PROVE  /\ Proper(Override(settings, source, said))
         /\ \A s \in Settings :
              IF s \in said THEN source[s] = {Override(settings, source, said)[s]}
              ELSE Override(settings, source, said)[s] = settings[s]
<1> DEFINE o == Override(settings, source, said)
<1>1. DOMAIN o = Settings
  BY DEF Override
<1>2. ASSUME NEW s \in said PROVE o[s] \in source[s]
  <2>1. (CHOOSE v \in source[s] : TRUE) \in source[s]
    BY <1>2
  <2> QED
    BY <2>1 DEF Override
<1>3. \A s \in Settings \ said : o[s] = settings[s]
  BY DEF Override
<1> HIDE DEF o
<1>4. \A s \in said : source[s] = {o[s]}
  <2> SUFFICES ASSUME NEW s \in said PROVE source[s] = {o[s]}
    OBVIOUS
  <2>1. \A v, w \in source[s] : v = w
    BY DEF Source
  <2> QED
    BY <1>2, <2>1
<1>5. \A s \in Numbers : o[s] \in Int
  BY <1>2, <1>3 DEF Proper, Source, Settings
<1>6. \A s \in Switches : o[s] \in BOOLEAN
  BY <1>2, <1>3 DEF Proper, Source, Settings
<1>7. o["http_addr"] \in Ports \union {""}
  BY <1>2, <1>3 DEF Proper, Source, Settings, Texts
<1>8. Proper(o)
  BY <1>1, <1>5, <1>6, <1>7 DEF Proper
<1> QED
  BY <1>3, <1>4, <1>8 DEF o

\* What a source says something about, it gives.
LEMMA Said ==
  ASSUME NEW source
  PROVE  /\ FileSays(source) \subseteq Settings /\ \A s \in FileSays(source) : source[s] # {}
         /\ EnvSays(source) \subseteq Settings /\ \A s \in EnvSays(source) : source[s] # {}
         /\ FlagsSay(source) \subseteq Settings /\ \A s \in FlagsSay(source) : source[s] # {}
  BY DEF FileSays, EnvSays, FlagsSay

\* A way to start the program.
Way(g) == Source(g.file) /\ Source(g.env) /\ Source(g.flags)

\* The settings before the database is located.
Read(g) ==
  Override(Override(FromFile(g.file), g.env, EnvSays(g.env)), g.flags, FlagsSay(g.flags))

\* A setting is that of the first source which says something about it, or the default.
LEMMA ReadFacts ==
  ASSUME NEW g, Way(g)
  PROVE  /\ Proper(Read(g))
         /\ \A s \in Settings :
              IF s \in FlagsSay(g.flags) THEN g.flags[s] = {Read(g)[s]}
              ELSE IF s \in EnvSays(g.env) THEN g.env[s] = {Read(g)[s]}
              ELSE IF s \in FileSays(g.file) THEN g.file[s] = {Read(g)[s]}
              ELSE Read(g)[s] = Defaults[s]
<1> DEFINE f == Override(Defaults, g.file, FileSays(g.file))
           e == Override(f, g.env, EnvSays(g.env))
           r == Override(e, g.flags, FlagsSay(g.flags))
<1>1. /\ Proper(f)
      /\ \A s \in Settings : IF s \in FileSays(g.file) THEN g.file[s] = {f[s]} ELSE f[s] = Defaults[s]
  <2>1. /\ Source(g.file) /\ FileSays(g.file) \subseteq Settings
        /\ \A s \in FileSays(g.file) : g.file[s] # {}
    BY Said DEF Way
  <2> QED
    BY DefaultsProper, <2>1, OverrideProper
<1> HIDE DEF f
<1>2. /\ Proper(e)
      /\ \A s \in Settings : IF s \in EnvSays(g.env) THEN g.env[s] = {e[s]} ELSE e[s] = f[s]
  <2>1. /\ Source(g.env) /\ EnvSays(g.env) \subseteq Settings
        /\ \A s \in EnvSays(g.env) : g.env[s] # {}
    BY Said DEF Way
  <2>2. Proper(f)
    BY <1>1
  <2> QED
    BY <2>1, <2>2, OverrideProper
<1> HIDE DEF e
<1>3. /\ Proper(r)
      /\ \A s \in Settings : IF s \in FlagsSay(g.flags) THEN g.flags[s] = {r[s]} ELSE r[s] = e[s]
  <2>1. /\ Source(g.flags) /\ FlagsSay(g.flags) \subseteq Settings
        /\ \A s \in FlagsSay(g.flags) : g.flags[s] # {}
    BY Said DEF Way
  <2>2. Proper(e)
    BY <1>2
  <2> QED
    BY <2>1, <2>2, OverrideProper
<1> HIDE DEF r
<1>4. Read(g) = r
  BY DEF Read, FromFile, f, e, r
<1> QED
  BY <1>1, <1>2, <1>3, <1>4

\* Locating the database changes nothing else, and there is one.
LEMMA LocatedFacts ==
  ASSUME NEW settings, Proper(settings)
  PROVE  /\ Proper(Located(settings)) /\ Placed(Located(settings))
         /\ \A s \in Settings \ {"db_path"} : Located(settings)[s] = settings[s]
         /\ Located(settings)["db_path"] =
              IF settings["db_path"] = "" THEN Home(settings["anki_account"]) ELSE settings["db_path"]
<1> DEFINE l == Located(settings)
<1>1. /\ DOMAIN l = Settings
      /\ \A s \in Settings \ {"db_path"} : l[s] = settings[s]
      /\ l["db_path"] =
           IF settings["db_path"] = "" THEN Home(settings["anki_account"]) ELSE settings["db_path"]
  BY DEF Located, Proper, Settings, Paths
<1> HIDE DEF l
<1>2. Proper(l)
  BY <1>1 DEF Proper, Settings, Numbers, Switches, Texts
<1>3. Placed(l)
  BY <1>1 DEF Placed, Home
<1> QED
  BY <1>1, <1>2, <1>3 DEF l

LEMMA LoadFacts ==
  ASSUME NEW g, Way(g)
  PROVE  Proper(Load(g)) /\ Placed(Load(g)) /\ Load(g) = Located(Read(g))
  BY ReadFacts, LocatedFacts DEF Load, Read
-----------------------------------------------------------------------------
(* Which source decides.                                                   *)

\* The priority of the sources, for one way to start the program.
LEMMA LoadPrecedence ==
  ASSUME NEW g, Way(g)
  PROVE  LET sources == <<g.flags, g.env, g.file>>
             settings == Load(g)
         IN  /\ \A s \in Settings, k \in 1..3 :
                  Decides(sources, k, s) /\ ~(k = 2 /\ s \in {"report_file", "full_diff"}) =>
                    {settings[s]} = sources[k][s]
             /\ \A s \in Settings \ {"db_path"} :
                  (\A k \in 1..3 : sources[k][s] = {}) => settings[s] = Defaults[s]
             /\ (\A k \in 1..3 : sources[k]["db_path"] = {}) =>
                  settings["db_path"] = Home(settings["anki_account"])
<1> DEFINE sources == <<g.flags, g.env, g.file>>
           l == Load(g)
           r == Read(g)
<1>1. sources[1] = g.flags /\ sources[2] = g.env /\ sources[3] = g.file
  OBVIOUS
<1>2. \A s \in Settings :
        IF s \in FlagsSay(g.flags) THEN g.flags[s] = {r[s]}
        ELSE IF s \in EnvSays(g.env) THEN g.env[s] = {r[s]}
        ELSE IF s \in FileSays(g.file) THEN g.file[s] = {r[s]}
        ELSE r[s] = Defaults[s]
  BY ReadFacts
<1>3. /\ \A s \in Settings \ {"db_path"} : l[s] = r[s]
      /\ l["db_path"] = IF r["db_path"] = "" THEN Home(r["anki_account"]) ELSE r["db_path"]
  BY ReadFacts, LoadFacts, LocatedFacts
<1> HIDE DEF sources, l, r
<1>4. \A s \in Settings : g.flags[s] = {} => s \notin FlagsSay(g.flags)
  BY DEF FlagsSay
<1>5. \A s \in Settings : g.env[s] = {} => s \notin EnvSays(g.env)
  BY DEF EnvSays
<1>6. \A s \in Settings : g.file[s] = {} => s \notin FileSays(g.file)
  BY DEF FileSays
<1>7. ASSUME NEW s \in Settings, NEW v \in g.flags[s], Usable(s, v)
      PROVE  s \in FlagsSay(g.flags)
  BY <1>7 DEF FlagsSay, Usable, Paths, Numbers, Switches
<1>8. ASSUME NEW s \in Settings \ {"report_file", "full_diff"}, NEW v \in g.env[s], Usable(s, v)
      PROVE  s \in EnvSays(g.env)
  BY <1>8 DEF EnvSays, Usable, Paths, Numbers, Switches, Texts
<1>9. ASSUME NEW s \in Settings, NEW v \in g.file[s], Usable(s, v)
      PROVE  s \in FileSays(g.file)
  BY <1>9 DEF FileSays, Usable, Paths, Numbers, Switches, Texts, Zero
<1>10. ASSUME NEW s \in Settings, NEW v, Usable(s, v), r[s] = v PROVE l[s] = v
  BY <1>3, <1>10 DEF Usable, Paths, Numbers, Switches, Texts, Settings
<1>11. ASSUME NEW s \in Settings, NEW k \in 1..3, Decides(sources, k, s),
              ~(k = 2 /\ s \in {"report_file", "full_diff"})
       PROVE  {l[s]} = sources[k][s]
  <2>1. PICK v \in sources[k][s] : Usable(s, v)
    BY <1>11 DEF Decides
  <2>2. \A j \in 1..(k - 1) : sources[j][s] = {}
    BY <1>11 DEF Decides
  <2>3. sources[k][s] = {r[s]}
    <3>1. CASE k = 1
      BY <1>1, <1>2, <1>7, <2>1, <3>1
    <3>2. CASE k = 2
      <4>1. s \notin FlagsSay(g.flags)
        BY <1>1, <1>4, <2>2, <3>2
      <4>2. s \in EnvSays(g.env)
        BY <1>1, <1>8, <1>11, <2>1, <3>2
      <4> QED
        BY <1>1, <1>2, <3>2, <4>1, <4>2
    <3>3. CASE k = 3
      <4>1. s \notin FlagsSay(g.flags) /\ s \notin EnvSays(g.env)
        BY <1>1, <1>4, <1>5, <2>2, <3>3
      <4>2. s \in FileSays(g.file)
        BY <1>1, <1>9, <2>1, <3>3
      <4> QED
        BY <1>1, <1>2, <3>3, <4>1, <4>2
    <3> QED
      BY <3>1, <3>2, <3>3
  <2>4. r[s] = v
    BY <2>1, <2>3
  <2> QED
    BY <1>10, <2>1, <2>3, <2>4
<1>12. ASSUME NEW s \in Settings, \A k \in 1..3 : sources[k][s] = {} PROVE r[s] = Defaults[s]
  BY <1>1, <1>2, <1>4, <1>5, <1>6, <1>12
<1>13. "db_path" \in Settings /\ "anki_account" \in Settings /\ Defaults["db_path"] = ""
  BY DEF Defaults, Settings, Paths, Numbers, Switches, Zero
<1>14. \A s \in Settings \ {"db_path"} : (\A k \in 1..3 : sources[k][s] = {}) => l[s] = Defaults[s]
  BY <1>3, <1>12
<1>15. (\A k \in 1..3 : sources[k]["db_path"] = {}) => l["db_path"] = Home(l["anki_account"])
  BY <1>3, <1>12, <1>13
<1> QED
  BY <1>11, <1>14, <1>15 DEF sources, l

-----------------------------------------------------------------------------
(* The saved file.                                                         *)

\* What each setting comes to: numbers, texts and the others.
LEMMA EffectNumbers ==
  ASSUME NEW settings, DOMAIN settings = Settings
  PROVE  /\ Effect(settings)["backup_keep_last_n"] = Else(settings["backup_keep_last_n"], 3)
         /\ Effect(settings)["default_page_size"] = Else(settings["default_page_size"], 10)
         /\ Effect(settings)["pragma_busy_timeout"] = Else(settings["pragma_busy_timeout"], 5000)
         /\ Effect(settings)["workers"] = Else(settings["workers"], 1)
  BY DEF Effect, Settings, Paths, Numbers, Switches, Texts

LEMMA EffectTexts ==
  ASSUME NEW settings, DOMAIN settings = Settings
  PROVE  /\ Effect(settings)["anki_account"] = ""
         /\ Effect(settings)["http_addr"] = Filled(settings["http_addr"], Default)
         /\ Effect(settings)["pragma_journal_mode"] =
              Upper(Filled(settings["pragma_journal_mode"], "WAL"))
         /\ Effect(settings)["pragma_synchronous"] =
              Upper(Filled(settings["pragma_synchronous"], "NORMAL"))
  BY DEF Effect, Settings, Paths, Numbers, Switches, Texts

LEMMA EffectKept ==
  ASSUME NEW settings, DOMAIN settings = Settings
  PROVE  \A s \in {"db_path", "report_file"} \union Switches : Effect(settings)[s] = settings[s]
<1>1. Effect(settings)["db_path"] = settings["db_path"]
  BY DEF Effect, Settings, Paths
<1>2. Effect(settings)["report_file"] = settings["report_file"]
  BY DEF Effect, Settings, Texts
<1>3. Effect(settings)["force_apply"] = settings["force_apply"]
  BY DEF Effect, Settings, Switches
<1>4. Effect(settings)["verbose"] = settings["verbose"]
  BY DEF Effect, Settings, Switches
<1>5. Effect(settings)["full_diff"] = settings["full_diff"]
  BY DEF Effect, Settings, Switches
<1> QED
  BY <1>1, <1>2, <1>3, <1>4, <1>5 DEF Switches

\* A setting comes to what it is; the address has no part in the others.
LEMMA SameEffect ==
  ASSUME NEW c, NEW d, DOMAIN c = Settings, DOMAIN d = Settings,
         \A s \in Settings \ {"http_addr"} : c[s] = d[s]
  PROVE  \A s \in Settings \ {"http_addr"} : Effect(c)[s] = Effect(d)[s]
<1>1. ASSUME NEW s \in {"db_path", "report_file"} \union Switches PROVE Effect(c)[s] = Effect(d)[s]
  <2>1. s \in Settings \ {"http_addr"}
    BY DEF Settings, Switches, Paths, Texts
  <2> QED
    BY <2>1, EffectKept
<1>2. \A s \in Numbers : Effect(c)[s] = Effect(d)[s]
  BY EffectNumbers DEF Settings, Numbers
<1>3. \A s \in {"anki_account", "pragma_journal_mode", "pragma_synchronous"} : Effect(c)[s] = Effect(d)[s]
  <2>1. \A s \in {"pragma_journal_mode", "pragma_synchronous"} : c[s] = d[s]
    BY DEF Settings, Texts
  <2> QED
    BY <2>1, EffectTexts
<1>4. ASSUME NEW s \in Settings \ {"http_addr"}
      PROVE  \/ s \in {"db_path", "report_file"} \union Switches \/ s \in Numbers
             \/ s \in {"anki_account", "pragma_journal_mode", "pragma_synchronous"}
  BY DEF Settings, Paths, Texts, Numbers, Switches
<1> QED
  BY <1>1, <1>2, <1>3, <1>4

\* A saved configuration as the one source of a start.
Alone(file) == [file |-> [s \in Settings |-> {file[s]}], env |-> Nothing, flags |-> Nothing]

\* Settings c have the effect that others had, but for a number of workers below one.
Alike(c, was) ==
  \A s \in Settings : Effect(c)[s] = Effect(was)[s] \/ (s = "workers" /\ was[s] < 1)

\* Read back alone, proper settings have the effect they had, zero values too: those
\* are not in the file for Load, and stand for the default where they were in effect.
LEMMA Restored ==
  ASSUME NEW file, Proper(file), Placed(file)
  PROVE  /\ Proper(Load(Alone(file))) /\ Placed(Load(Alone(file)))
         /\ Alike(Load(Alone(file)), file)
<1> DEFINE g == Alone(file)
           l == Load(g)
           r == Read(g)
<1>1. \A s \in Settings : g.file[s] = {file[s]} /\ g.env[s] = {} /\ g.flags[s] = {}
  BY DEF Alone, Nothing
<1>2. Way(g)
  <2>1. Source(g.env) /\ Source(g.flags)
    BY DEF Alone, Nothing, Source, Settings, Numbers, Switches, Texts
  <2>2. /\ DOMAIN g.file = Settings
        /\ \A s \in Settings : g.file[s] = {file[s]}
    BY DEF Alone
  <2>3. Source(g.file)
    <3>1. Numbers \subseteq Settings /\ Switches \subseteq Settings /\ "http_addr" \in Settings
      BY DEF Settings, Texts
    <3>2. /\ \A s \in Numbers : file[s] \in Int
          /\ \A s \in Switches : file[s] \in BOOLEAN
          /\ file["http_addr"] \in Ports \union {""}
      BY DEF Proper
    <3> HIDE DEF g
    <3>3. \A s \in Settings : \A v, w \in g.file[s] : v = w
      BY <2>2
    <3>4. \A s \in Numbers : g.file[s] \subseteq Int
      BY <2>2, <3>1, <3>2
    <3>5. \A s \in Switches : g.file[s] \subseteq BOOLEAN
      BY <2>2, <3>1, <3>2
    <3>6. g.file["http_addr"] \subseteq Ports \union {""}
      BY <2>2, <3>1, <3>2
    <3> QED
      BY <2>2, <3>3, <3>4, <3>5, <3>6 DEF Source
  <2> QED
    BY <2>1, <2>3 DEF Way
<1>3. Proper(l) /\ Placed(l) /\ l = Located(r)
  BY <1>2, LoadFacts
<1>4. \A s \in Settings : r[s] = IF s \in FileSays(g.file) THEN file[s] ELSE Defaults[s]
  <2>1. FlagsSay(g.flags) = {} /\ EnvSays(g.env) = {}
    BY <1>1 DEF FlagsSay, EnvSays
  <2>2. \A s \in Settings : IF s \in FileSays(g.file) THEN g.file[s] = {r[s]} ELSE r[s] = Defaults[s]
    BY <1>2, <2>1, ReadFacts
  <2> QED
    BY <1>1, <2>2
<1>5. \A s \in Settings : s \in FileSays(g.file) <=>
                            IF s \in Numbers THEN file[s] > 0 ELSE file[s] # Zero(s)
  BY <1>1 DEF FileSays
<1>6. "db_path" \in FileSays(g.file)
  BY <1>5 DEF Placed, Settings, Paths, Numbers, Switches, Zero
<1>7. \A s \in Settings : l[s] = r[s]
  <2>1. r["db_path"] = file["db_path"]
    BY <1>4, <1>6 DEF Settings, Paths
  <2>2. Proper(r)
    BY <1>2, ReadFacts
  <2> QED
    BY <1>3, <2>1, <2>2, LocatedFacts DEF Placed
<1>8. DOMAIN l = Settings /\ DOMAIN file = Settings
  BY <1>3 DEF Proper
<1> HIDE DEF g, l, r
<1>9. ASSUME NEW s \in Numbers
      PROVE  Effect(l)[s] = Effect(file)[s] \/ (s = "workers" /\ file[s] < 1)
  <2>1. l[s] = IF file[s] > 0 THEN file[s] ELSE Defaults[s]
    BY <1>4, <1>5, <1>7 DEF Settings
  <2>2. /\ Defaults["backup_keep_last_n"] = 3 /\ Defaults["default_page_size"] = 10
        /\ Defaults["pragma_busy_timeout"] = 5000
    BY DefaultNumbers
  <2>3. s \in {"backup_keep_last_n", "default_page_size", "pragma_busy_timeout", "workers"}
    BY DEF Numbers
  <2>5. file[s] \in Int
    BY DEF Proper
  <2>6. CASE s = "backup_keep_last_n"
    <3>1. Else(l[s], 3) = Else(file[s], 3)
      BY <2>1, <2>2, <2>5, <2>6 DEF Else
    <3> QED
      BY <1>8, <2>6, <3>1, EffectNumbers
  <2>7. CASE s = "default_page_size"
    <3>1. Else(l[s], 10) = Else(file[s], 10)
      BY <2>1, <2>2, <2>5, <2>7 DEF Else
    <3> QED
      BY <1>8, <2>7, <3>1, EffectNumbers
  <2>8. CASE s = "pragma_busy_timeout"
    <3>1. Else(l[s], 5000) = Else(file[s], 5000)
      BY <2>1, <2>2, <2>5, <2>8 DEF Else
    <3> QED
      BY <1>8, <2>8, <3>1, EffectNumbers
  <2>9. CASE s = "workers"
    <3>1. file[s] < 1 \/ l[s] = file[s]
      BY <2>1, <2>5
    <3> QED
      BY <1>8, <2>9, <3>1, EffectNumbers
  <2> QED
    BY <2>3, <2>6, <2>7, <2>8, <2>9
<1>10. ASSUME NEW s \in Switches PROVE Effect(l)[s] = Effect(file)[s]
  <2>1. s \in Settings /\ s \notin Numbers /\ Zero(s) = FALSE /\ Defaults[s] = FALSE
    BY DefaultSwitches DEF Settings, Switches, Numbers, Zero
  <2>2. file[s] \in BOOLEAN
    BY DEF Proper
  <2>3. l[s] = file[s]
    BY <1>4, <1>5, <1>7, <2>1, <2>2
  <2> QED
    BY <1>8, <2>3, EffectKept
<1>11. ASSUME NEW s \in Texts \union {"db_path"} PROVE Effect(l)[s] = Effect(file)[s]
  <2>1. s \in Settings /\ s \notin Numbers /\ Zero(s) = ""
    BY DEF Settings, Paths, Texts, Switches, Numbers, Zero
  <2>2. l[s] = IF file[s] # "" THEN file[s] ELSE Defaults[s]
    BY <1>4, <1>5, <1>7, <2>1
  <2>3. CASE s = "http_addr"
    <3>1. Defaults[s] = Default
      BY <2>3, DefaultTexts
    <3>2. Filled(l[s], Default) = Filled(file[s], Default)
      BY <2>2, <3>1 DEF Filled
    <3> QED
      BY <1>8, <2>3, <3>2, EffectTexts
  <2>4. CASE s = "pragma_journal_mode"
    <3>1. Defaults[s] = "WAL"
      BY <2>4, DefaultTexts
    <3>2. Filled(l[s], "WAL") = Filled(file[s], "WAL")
      BY <2>2, <3>1 DEF Filled
    <3> QED
      BY <1>8, <2>4, <3>2, EffectTexts
  <2>5. CASE s = "pragma_synchronous"
    <3>1. Defaults[s] = "NORMAL"
      BY <2>5, DefaultTexts
    <3>2. Filled(l[s], "NORMAL") = Filled(file[s], "NORMAL")
      BY <2>2, <3>1 DEF Filled
    <3> QED
      BY <1>8, <2>5, <3>2, EffectTexts
  <2>6. CASE s \in {"db_path", "report_file"}
    <3>1. Defaults[s] = ""
      BY <2>6, DefaultTexts DEF Paths
    <3>2. l[s] = file[s]
      BY <2>2, <3>1
    <3> QED
      BY <1>8, <2>6, <3>2, EffectKept
  <2> QED
    BY <2>3, <2>4, <2>5, <2>6 DEF Texts
<1>12. Effect(l)["anki_account"] = Effect(file)["anki_account"]
  BY <1>8, EffectTexts
<1>13. ASSUME NEW s \in Settings PROVE Effect(l)[s] = Effect(file)[s] \/ (s = "workers" /\ file[s] < 1)
  BY <1>9, <1>10, <1>11, <1>12 DEF Settings, Paths
<1> QED
  BY <1>3, <1>13 DEF g, l, Alike

-----------------------------------------------------------------------------
(* The invariant.                                                          *)

Types ==
  /\ given \in Given
  /\ from \in [Processes -> {"nothing", "given", "saved"}]
  /\ at \in [Processes -> {"off", "probing", "opening", "listening", "serving", "tidying", "ended"}]
  /\ DOMAIN cfg = Processes /\ \A p \in Processes : Proper(cfg[p])
  /\ DOMAIN opened = Processes /\ DOMAIN holder = Ports
  /\ saved = [state |-> saved.state, file |-> saved.file]
  /\ kept = [saved |-> kept.saved, read |-> kept.read] /\ DOMAIN kept.read = Processes

\* A process has what it was started with until it probes its port.
Loaded == \A p \in Processes : from[p] = "given" /\ at[p] = "probing" => cfg[p] = Load(given)

\* A process that runs has a database, and a whole file holds what was in effect.
Homed == \A p \in Processes : at[p] \notin {"off", "ended"} => Placed(cfg[p])
Filed == saved.state = "whole" =>
           Proper(saved.file) /\ Placed(saved.file) /\ kept.saved = saved.file

\* What is in effect after a start with the file is what was when it was saved, up to
\* the probe; the probe changes the address only.
Reread == \A p \in Processes :
  from[p] = "saved" =>
    /\ at[p] = "probing" =>
         Alike(cfg[p], kept.read[p])
    /\ at[p] \in {"opening", "listening"} =>
         \A s \in Settings :
           \/ Effect(cfg[p])[s] = Effect(kept.read[p])[s]
           \/ s = "http_addr" /\ Effect(kept.read[p])[s] = Default /\ cfg[p][s] \in Ephemeral
           \/ s = "workers" /\ kept.read[p][s] < 1

\* A process that has probed has a port; it is free until someone takes it, and its own
\* while it serves.
Probed == \A p \in Processes :
  at[p] \in {"opening", "listening", "serving", "tidying"} => cfg[p]["http_addr"] \in Ports
Owned == \A p \in Processes : at[p] = "serving" => holder[cfg[p]["http_addr"]] = p
Untaken == \A p \in Processes : p \notin taken =>
  /\ at[p] \in {"opening", "listening"} => holder[cfg[p]["http_addr"]] = Free
  /\ at[p] # "tidying" /\ opened[p] \in {Free, p}

-----------------------------------------------------------------------------
(* How each action moves a process.                                        *)

LEMMA Readdressed ==
  ASSUME NEW c, Proper(c), NEW a \in Ports
  PROVE  LET d == [c EXCEPT !.http_addr = a]
         IN  /\ Proper(d) /\ (Placed(c) => Placed(d)) /\ d["http_addr"] = a
             /\ \A s \in Settings \ {"http_addr"} : d[s] = c[s]
<1> DEFINE d == [c EXCEPT !.http_addr = a]
<1>1. /\ DOMAIN d = Settings /\ d["http_addr"] = a
      /\ \A s \in Settings \ {"http_addr"} : d[s] = c[s]
  BY DEF Proper, Settings, Texts
<1> HIDE DEF d
<1>2. Proper(d)
  BY <1>1 DEF Proper, Settings, Numbers, Switches
<1>3. Placed(c) => Placed(d)
  BY <1>1 DEF Placed, Settings, Paths
<1> QED
  BY <1>1, <1>2, <1>3 DEF d

LEMMA Redirected ==
  ASSUME NEW c, Proper(c)
  PROVE  LET d == [c EXCEPT !.db_path = Switched]
         IN  /\ Proper(d) /\ Placed(d) /\ d["http_addr"] = c["http_addr"]
<1> DEFINE d == [c EXCEPT !.db_path = Switched]
<1>1. /\ DOMAIN d = Settings /\ d["db_path"] = Switched
      /\ \A s \in Settings \ {"db_path"} : d[s] = c[s]
  BY DEF Proper, Settings, Paths
<1> HIDE DEF d
<1>2. Proper(d) /\ d["http_addr"] = c["http_addr"]
  BY <1>1 DEF Proper, Settings, Numbers, Switches, Texts
<1>3. Placed(d)
  BY <1>1, StartupAssumption DEF Placed
<1> QED
  BY <1>1, <1>2, <1>3 DEF d

\* Only p moves.
Others(p) == \A q \in Processes \ {p} :
  from'[q] = from[q] /\ at'[q] = at[q] /\ cfg'[q] = cfg[q] /\ opened'[q] = opened[q]
Kinds ==
  /\ from' \in [Processes -> {"nothing", "given", "saved"}]
  /\ at' \in [Processes -> {"off", "probing", "opening", "listening", "serving", "tidying", "ended"}]
  /\ DOMAIN cfg' = Processes /\ DOMAIN opened' = Processes /\ DOMAIN holder' = Ports

LEMMA Starts ==
  ASSUME Types, Filed, NEW p \in Processes, Start(p)
  PROVE  /\ Kinds /\ Others(p) /\ at[p] = "off" /\ opened'[p] = opened[p]
         /\ UNCHANGED <<given, holder, saved, taken>> /\ kept'.saved = kept.saved
         /\ kept' = [saved |-> kept'.saved, read |-> kept'.read] /\ DOMAIN kept'.read = Processes
         /\ \A q \in Processes \ {p} : kept'.read[q] = kept.read[q]
         /\ Proper(cfg'[p])
         /\ \/ at'[p] = "probing" /\ from'[p] = "given" /\ cfg'[p] = Load(given) /\ Placed(cfg'[p])
            \/ /\ at'[p] = "probing" /\ from'[p] = "saved" /\ Placed(cfg'[p])
               /\ Alike(cfg'[p], kept'.read[p])
            \/ at'[p] = "ended"
<1>0. UNCHANGED <<given, opened, holder, saved, taken>>
  BY DEF Start
<1>1. CASE from' = [from EXCEPT ![p] = "given"] /\ cfg' = [cfg EXCEPT ![p] = Load(given)]
           /\ Goto(p, "probing") /\ UNCHANGED kept
  <2>1. Way(given)
    BY StartupAssumption DEF Way, Types
  <2>2. Proper(Load(given)) /\ Placed(Load(given))
    BY <2>1, LoadFacts
  <2> QED
    BY <1>0, <1>1, <2>2 DEF Start, Goto, Types, Kinds, Others
<1>2. CASE saved.state = "whole" /\ from' = [from EXCEPT ![p] = "saved"]
           /\ cfg' = [cfg EXCEPT ![p] = Load(SavedAlone)]
           /\ kept' = [kept EXCEPT !.read = [@ EXCEPT ![p] = kept.saved]]
           /\ Goto(p, "probing")
  <2>1. Proper(saved.file) /\ Placed(saved.file) /\ kept.saved = saved.file
    BY <1>2 DEF Filed
  <2>2. SavedAlone = Alone(saved.file)
    BY DEF SavedAlone, Alone
  <2>3. /\ Proper(Load(SavedAlone)) /\ Placed(Load(SavedAlone))
        /\ Alike(Load(SavedAlone), kept.saved)
    BY <2>1, <2>2, Restored
  <2> DEFINE reads == [kept.read EXCEPT ![p] = kept.saved]
  <2>4. /\ DOMAIN reads = Processes /\ reads[p] = kept.saved
        /\ \A q \in Processes \ {p} : reads[q] = kept.read[q]
    BY DEF Types
  <2>5. kept' = [kept EXCEPT !.read = reads]
    BY <1>2
  <2> HIDE DEF reads
  <2>6. kept' = [saved |-> kept.saved, read |-> reads]
    BY <2>5 DEF Types
  <2>7. kept'.saved = kept.saved /\ kept'.read = reads
    BY <2>6
  <2>8. at[p] = "off" /\ at'[p] = "probing" /\ from'[p] = "saved" /\ cfg'[p] = Load(SavedAlone)
    BY <1>2 DEF Start, Goto, Types
  <2>9. Kinds /\ Others(p)
    BY <1>0, <1>2 DEF Goto, Types, Kinds, Others
  <2> QED
    BY <1>0, <2>3, <2>4, <2>6, <2>7, <2>8, <2>9
<1>3. CASE saved.state = "broken" /\ Goto(p, "ended") /\ UNCHANGED <<from, cfg, kept>>
  BY <1>0, <1>3 DEF Start, Goto, Types, Kinds, Others
<1> QED
  BY <1>1, <1>2, <1>3 DEF Start

LEMMA Probes ==
  ASSUME Types, NEW p \in Processes, Probe(p)
  PROVE  /\ Kinds /\ Others(p) /\ at[p] = "probing" /\ from'[p] = from[p] /\ opened'[p] = opened[p]
         /\ UNCHANGED <<given, holder, saved, kept, taken>>
         /\ Proper(cfg'[p]) /\ (Placed(cfg[p]) => Placed(cfg'[p]))
         /\ \/ /\ at'[p] = "opening"
               /\ cfg'[p]["http_addr"] \in Ports /\ holder[cfg'[p]["http_addr"]] = Free
               /\ \A s \in Settings \ {"http_addr"} : cfg'[p][s] = cfg[p][s]
               /\ \/ cfg'[p]["http_addr"] = Address(p)
                  \/ Address(p) = Default /\ cfg'[p]["http_addr"] \in Ephemeral
            \/ at'[p] = "ended"
<1>0. Proper(cfg[p]) /\ Address(p) \in Ports
  <2>1. Proper(cfg[p])
    BY DEF Types
  <2>2. Address(p) = Filled(cfg[p]["http_addr"], Default)
    BY DEF Address
  <2>3. cfg[p]["http_addr"] \in Ports \union {""}
    BY <2>1 DEF Proper
  <2> QED
    BY <2>1, <2>2, <2>3, StartupAssumption DEF Filled
<1>1. UNCHANGED <<given, from, opened, holder, saved, kept, taken>> /\ at[p] = "probing"
  BY DEF Probe
<1>2. ASSUME NEW a \in Ports, holder[a] = Free, cfg' = Addressed(p, a), Goto(p, "opening"),
             a = Address(p) \/ (Address(p) = Default /\ a \in Ephemeral)
      PROVE  /\ Kinds /\ Others(p) /\ Proper(cfg'[p]) /\ (Placed(cfg[p]) => Placed(cfg'[p]))
             /\ at'[p] = "opening"
             /\ cfg'[p]["http_addr"] \in Ports /\ holder[cfg'[p]["http_addr"]] = Free
             /\ \A s \in Settings \ {"http_addr"} : cfg'[p][s] = cfg[p][s]
             /\ \/ cfg'[p]["http_addr"] = Address(p)
                \/ Address(p) = Default /\ cfg'[p]["http_addr"] \in Ephemeral
  <2> DEFINE d == [cfg[p] EXCEPT !.http_addr = a]
  <2>1. /\ Proper(d) /\ (Placed(cfg[p]) => Placed(d)) /\ d["http_addr"] = a
        /\ \A s \in Settings \ {"http_addr"} : d[s] = cfg[p][s]
    BY <1>0, Readdressed
  <2>2. cfg' = [cfg EXCEPT ![p] = d]
    BY <1>2 DEF Addressed
  <2> HIDE DEF d
  <2>3. cfg'[p] = d /\ DOMAIN cfg' = Processes /\ \A q \in Processes \ {p} : cfg'[q] = cfg[q]
    BY <2>2 DEF Types
  <2>4. /\ at'[p] = "opening" /\ \A q \in Processes \ {p} : at'[q] = at[q]
        /\ at' \in [Processes -> {"off", "probing", "opening", "listening", "serving", "tidying", "ended"}]
    BY <1>2 DEF Goto, Types
  <2>5. Kinds /\ Others(p)
    BY <1>1, <2>3, <2>4 DEF Kinds, Others, Types
  <2> QED
    BY <1>2, <2>1, <2>3, <2>4, <2>5
<1>3. CASE Goto(p, "ended") /\ UNCHANGED cfg
  BY <1>0, <1>1, <1>3 DEF Goto, Types, Kinds, Others
<1>4. \/ \E a \in Ports : /\ holder[a] = Free /\ cfg' = Addressed(p, a) /\ Goto(p, "opening")
                          /\ a = Address(p) \/ (Address(p) = Default /\ a \in Ephemeral)
      \/ Goto(p, "ended") /\ UNCHANGED cfg
  BY <1>0, StartupAssumption DEF Probe
<1>5. CASE \E a \in Ports : /\ holder[a] = Free /\ cfg' = Addressed(p, a) /\ Goto(p, "opening")
                            /\ a = Address(p) \/ (Address(p) = Default /\ a \in Ephemeral)
  <2>1. /\ Kinds /\ Others(p) /\ Proper(cfg'[p]) /\ (Placed(cfg[p]) => Placed(cfg'[p]))
        /\ at'[p] = "opening"
        /\ cfg'[p]["http_addr"] \in Ports /\ holder[cfg'[p]["http_addr"]] = Free
        /\ \A s \in Settings \ {"http_addr"} : cfg'[p][s] = cfg[p][s]
        /\ \/ cfg'[p]["http_addr"] = Address(p)
           \/ Address(p) = Default /\ cfg'[p]["http_addr"] \in Ephemeral
    BY <1>2, <1>5
  <2>2. from'[p] = from[p] /\ opened'[p] = opened[p]
    BY <1>1
  <2> QED
    BY <1>1, <2>1, <2>2
<1> QED
  BY <1>3, <1>4, <1>5

LEMMA Ends ==
  ASSUME Types, NEW p \in Processes, End(p)
  PROVE  /\ Kinds /\ Others(p) /\ at'[p] = "ended" /\ from'[p] = from[p] /\ opened'[p] = opened[p]
         /\ UNCHANGED <<given, saved, kept, taken>> /\ Proper(cfg'[p])
         /\ \A a \in Ports : holder'[a] = IF holder[a] = p THEN Free ELSE holder[a]
  BY DefaultsProper DEF End, Goto, Types, Kinds, Others

LEMMA Saves ==
  ASSUME Types, NEW p \in Processes, Save(p)
  PROVE  /\ Kinds /\ Others(p) /\ at[p] = "serving" /\ at'[p] = "serving" /\ opened'[p] = opened[p]
         /\ from'[p] = from[p]
         /\ UNCHANGED <<given, holder, taken>> /\ Proper(cfg'[p])
         /\ (Placed(cfg[p]) => Placed(cfg'[p])) /\ cfg'[p]["http_addr"] = cfg[p]["http_addr"]
         /\ saved' = [state |-> saved'.state, file |-> saved'.file]
         /\ kept' = [saved |-> kept'.saved, read |-> kept'.read] /\ kept'.read = kept.read
         /\ \/ saved'.file = cfg'[p] /\ kept'.saved = cfg'[p]
            \/ saved'.state = "broken" /\ UNCHANGED kept
            \/ UNCHANGED <<saved, kept>>
<1>0. UNCHANGED <<given, from, at, opened, holder, taken>> /\ at[p] = "serving" /\ Proper(cfg[p])
  BY DEF Save, Types
<1>1. /\ DOMAIN cfg' = Processes /\ \A q \in Processes \ {p} : cfg'[q] = cfg[q]
      /\ Proper(cfg'[p]) /\ (Placed(cfg[p]) => Placed(cfg'[p]))
      /\ cfg'[p]["http_addr"] = cfg[p]["http_addr"]
  <2>1. CASE cfg' = cfg
    BY <1>0, <2>1 DEF Types
  <2>2. CASE cfg' = [cfg EXCEPT ![p] = [@ EXCEPT !.db_path = Switched]]
    <3> DEFINE d == [cfg[p] EXCEPT !.db_path = Switched]
    <3>1. Proper(d) /\ Placed(d) /\ d["http_addr"] = cfg[p]["http_addr"]
      BY <1>0, Redirected
    <3>2. cfg' = [cfg EXCEPT ![p] = d]
      BY <2>2
    <3> HIDE DEF d
    <3>3. cfg'[p] = d /\ DOMAIN cfg' = Processes /\ \A q \in Processes \ {p} : cfg'[q] = cfg[q]
      BY <3>2 DEF Types
    <3> QED
      BY <3>1, <3>3
  <2> QED
    BY <2>1, <2>2 DEF Save
<1>2. /\ saved' = [state |-> saved'.state, file |-> saved'.file]
      /\ kept' = [saved |-> kept'.saved, read |-> kept'.read] /\ kept'.read = kept.read
      /\ \/ saved'.file = cfg'[p] /\ kept'.saved = cfg'[p]
         \/ saved'.state = "broken" /\ UNCHANGED kept
         \/ UNCHANGED <<saved, kept>>
  <2>1. /\ saved = [state |-> saved.state, file |-> saved.file]
        /\ kept = [saved |-> kept.saved, read |-> kept.read]
    BY DEF Types
  <2>2. CASE Written(p)
    <3> DEFINE e == cfg'[p]
    <3>1. /\ saved' = [state |-> "whole", file |-> cfg'[p]]
          /\ kept' = [kept EXCEPT !.saved = e]
      BY <2>2 DEF Written, Snapshot
    <3> HIDE DEF e
    <3>2. kept' = [saved |-> e, read |-> kept.read]
      BY <2>1, <3>1
    <3>3. kept'.saved = e /\ kept'.read = kept.read
      BY <3>2
    <3>4. saved'.state = "whole" /\ saved'.file = cfg'[p]
      BY <3>1
    <3> QED
      BY <3>1, <3>2, <3>3, <3>4 DEF e
  <2>3. CASE saved' = [saved EXCEPT !.state = "broken"] /\ UNCHANGED kept
    <3>1. saved' = [state |-> "broken", file |-> saved.file]
      BY <2>1, <2>3
    <3>2. saved'.state = "broken" /\ saved'.file = saved.file
      BY <3>1
    <3> QED
      BY <2>1, <2>3, <3>1, <3>2
  <2>4. CASE UNCHANGED <<saved, kept>>
    BY <2>1, <2>4
  <2> QED
    BY <2>2, <2>3, <2>4 DEF Save
<1> QED
  BY <1>0, <1>1, <1>2 DEF Kinds, Others, Types

\* Opening, listening, looking for the server and the port that another takes leave the
\* settings and the file alone.
LEMMA Stays ==
  ASSUME Types, NEW p \in Processes, Open(p) \/ Listen(p) \/ Browse(p)
  PROVE  /\ Kinds /\ Others(p) /\ UNCHANGED <<given, from, cfg, saved, kept>>
         /\ at[p] \notin {"off", "probing", "ended"} /\ at'[p] \notin {"off", "probing"}
         /\ at'[p] \in {"opening", "listening"} => at[p] \in {"opening", "listening"}
         /\ at'[p] # "ended" => at[p] # "ended"
<1>1. CASE Open(p)
  BY <1>1 DEF Open, Goto, Types, Kinds, Others
<1>2. CASE Listen(p)
  BY <1>2 DEF Listen, Goto, Types, Kinds, Others
<1>3. CASE Browse(p)
  BY <1>3 DEF Browse, Types, Kinds, Others
<1> QED
  BY <1>1, <1>2, <1>3

LEMMA Rests ==
  ASSUME Types, OtherTakes \/ Over \/ UNCHANGED vars
  PROVE  Kinds /\ UNCHANGED <<given, from, at, cfg, opened, saved, kept>>
  BY DEF OtherTakes, Over, vars, procs, Types, Kinds

-----------------------------------------------------------------------------
(* The steps.                                                              *)

LEMMA TypesStep == Types /\ Filed /\ [Next]_vars => Types'
<1> SUFFICES ASSUME Types, Filed, [Next]_vars PROVE Types'
  OBVIOUS
<1>1. ASSUME NEW p \in Processes, Start(p) PROVE Types'
  BY <1>1, Starts DEF Types, Kinds, Others
<1>2. ASSUME NEW p \in Processes, Probe(p) PROVE Types'
  BY <1>2, Probes DEF Types, Kinds, Others
<1>3. ASSUME NEW p \in Processes, End(p) PROVE Types'
  BY <1>3, Ends DEF Types, Kinds, Others
<1>4. ASSUME NEW p \in Processes, Save(p) PROVE Types'
  BY <1>4, Saves DEF Types, Kinds, Others
<1>5. ASSUME NEW p \in Processes, Open(p) \/ Listen(p) \/ Browse(p) PROVE Types'
  BY <1>5, Stays DEF Types, Kinds, Others
<1>6. CASE OtherTakes \/ Over \/ UNCHANGED vars
  BY <1>6, Rests DEF Types, Kinds
<1> QED
  BY <1>1, <1>2, <1>3, <1>4, <1>5, <1>6 DEF Next

LEMMA SettingsStep ==
  Types /\ Filed /\ Loaded /\ Homed /\ Probed /\ [Next]_vars => Loaded' /\ Homed' /\ Probed'
<1> SUFFICES ASSUME Types, Filed, Loaded, Homed, Probed, [Next]_vars
             PROVE  Loaded' /\ Homed' /\ Probed'
  OBVIOUS
<1>1. ASSUME NEW p \in Processes, Start(p) PROVE Loaded' /\ Homed' /\ Probed'
  BY <1>1, Starts DEF Loaded, Homed, Probed, Others
<1>2. ASSUME NEW p \in Processes, Probe(p) PROVE Loaded' /\ Homed' /\ Probed'
  BY <1>2, Probes DEF Loaded, Homed, Probed, Others
<1>3. ASSUME NEW p \in Processes, End(p) PROVE Loaded' /\ Homed' /\ Probed'
  BY <1>3, Ends DEF Loaded, Homed, Probed, Others
<1>4. ASSUME NEW p \in Processes, Save(p) PROVE Loaded' /\ Homed' /\ Probed'
  BY <1>4, Saves DEF Loaded, Homed, Probed, Others
<1>5. ASSUME NEW p \in Processes, Open(p) \/ Listen(p) \/ Browse(p)
      PROVE  Loaded' /\ Homed' /\ Probed'
  <2>1. /\ UNCHANGED <<given, from, cfg>> /\ Others(p)
        /\ at[p] \in {"opening", "listening", "serving", "tidying"} /\ at'[p] # "probing"
    BY <1>5, Stays DEF Types
  <2> QED
    BY <2>1 DEF Loaded, Homed, Probed, Others
<1>6. CASE OtherTakes \/ Over \/ UNCHANGED vars
  BY <1>6, Rests DEF Loaded, Homed, Probed
<1> QED
  BY <1>1, <1>2, <1>3, <1>4, <1>5, <1>6 DEF Next

LEMMA FiledStep == Types /\ Homed /\ Filed /\ [Next]_vars => Filed'
<1> SUFFICES ASSUME Types, Homed, Filed, [Next]_vars PROVE Filed'
  OBVIOUS
<1>1. ASSUME NEW p \in Processes, Start(p) PROVE Filed'
  BY <1>1, Starts DEF Filed
<1>2. ASSUME NEW p \in Processes, Probe(p) \/ End(p) PROVE Filed'
  BY <1>2, Probes, Ends DEF Filed
<1>3. ASSUME NEW p \in Processes, Save(p) PROVE Filed'
  BY <1>3, Saves DEF Filed, Homed
<1>4. ASSUME NEW p \in Processes, Open(p) \/ Listen(p) \/ Browse(p) PROVE Filed'
  BY <1>4, Stays DEF Filed
<1>5. CASE OtherTakes \/ Over \/ UNCHANGED vars
  BY <1>5, Rests DEF Filed
<1> QED
  BY <1>1, <1>2, <1>3, <1>4, <1>5 DEF Next

LEMMA RereadStep == Types /\ Filed /\ Reread /\ [Next]_vars => Reread'
<1> SUFFICES ASSUME Types, Filed, Reread, [Next]_vars PROVE Reread'
  OBVIOUS
<1>1. ASSUME NEW p \in Processes, Start(p) PROVE Reread'
  BY <1>1, Starts DEF Reread, Others
<1>2. ASSUME NEW p \in Processes, Probe(p) PROVE Reread'
  <2>1. CASE at'[p] = "ended"
    BY <1>2, <2>1, Probes DEF Reread, Others
  <2>2. CASE at'[p] = "opening" /\ from[p] = "saved"
    <3>1. /\ Proper(cfg[p]) /\ Proper(cfg'[p]) /\ kept' = kept
          /\ \A s \in Settings \ {"http_addr"} : cfg'[p][s] = cfg[p][s]
          /\ Alike(cfg[p], kept.read[p])
      BY <1>2, <2>2, Probes DEF Reread, Types
    <3>2. \/ cfg'[p]["http_addr"] = Address(p)
          \/ Address(p) = Default /\ cfg'[p]["http_addr"] \in Ephemeral
      BY <1>2, <2>2, Probes
    <3>3. DOMAIN cfg[p] = Settings /\ DOMAIN cfg'[p] = Settings
      BY <3>1 DEF Proper
    <3>4. Effect(cfg[p])["http_addr"] = Address(p)
      BY <3>3, EffectTexts DEF Address
    <3>5. cfg'[p]["http_addr"] = Address(p) => Effect(cfg'[p])["http_addr"] = Address(p)
      BY <3>3, EffectTexts DEF Address, Filled
    <3>6. \A s \in Settings \ {"http_addr"} : Effect(cfg'[p])[s] = Effect(cfg[p])[s]
      BY <3>1, <3>3, SameEffect
    <3>7. "http_addr" \in Settings
      BY DEF Settings, Texts
    <3>8. \A s \in Settings :
            \/ Effect(cfg'[p])[s] = Effect(kept.read[p])[s]
            \/ s = "http_addr" /\ Effect(kept.read[p])[s] = Default /\ cfg'[p][s] \in Ephemeral
            \/ s = "workers" /\ kept.read[p][s] < 1
      BY <3>1, <3>2, <3>4, <3>5, <3>6, <3>7 DEF Alike
    <3> QED
      BY <1>2, <2>2, <3>1, <3>8, Probes DEF Reread, Others
  <2>3. CASE from[p] # "saved"
    BY <1>2, <2>3, Probes DEF Reread, Others
  <2> QED
    BY <1>2, <2>1, <2>2, <2>3, Probes
<1>3. ASSUME NEW p \in Processes, End(p) PROVE Reread'
  BY <1>3, Ends DEF Reread, Others
<1>4. ASSUME NEW p \in Processes, Save(p) PROVE Reread'
  BY <1>4, Saves DEF Reread, Others
<1>5. ASSUME NEW p \in Processes, Open(p) \/ Listen(p) \/ Browse(p) PROVE Reread'
  BY <1>5, Stays DEF Reread, Others
<1>6. CASE OtherTakes \/ Over \/ UNCHANGED vars
  BY <1>6, Rests DEF Reread
<1> QED
  BY <1>1, <1>2, <1>3, <1>4, <1>5, <1>6 DEF Next

LEMMA PortStep == Types /\ Filed /\ Probed /\ Owned /\ Untaken /\ [Next]_vars => Owned' /\ Untaken'
<1> SUFFICES ASSUME Types, Filed, Probed, Owned, Untaken, [Next]_vars PROVE Owned' /\ Untaken'
  OBVIOUS
<1>0. \A p \in Processes : p # Free
  BY StartupAssumption DEF Free
<1>1. ASSUME NEW p \in Processes, Start(p) PROVE Owned' /\ Untaken'
  BY <1>1, Starts DEF Owned, Untaken, Others
<1>2. ASSUME NEW p \in Processes, Probe(p) PROVE Owned' /\ Untaken'
  BY <1>2, Probes DEF Owned, Untaken, Others
<1>3. ASSUME NEW p \in Processes, End(p) PROVE Owned' /\ Untaken'
  BY <1>0, <1>3, Ends DEF Owned, Untaken, Others, Probed
<1>4. ASSUME NEW p \in Processes, Save(p) PROVE Owned' /\ Untaken'
  BY <1>4, Saves DEF Owned, Untaken, Others
<1>5. ASSUME NEW p \in Processes, Open(p) PROVE Owned' /\ Untaken'
  BY <1>5 DEF Open, Goto, Types, Owned, Untaken
<1>6. ASSUME NEW p \in Processes, Listen(p) PROVE Owned' /\ Untaken'
  BY <1>0, <1>6 DEF Listen, Loses, Goto, Types, Owned, Untaken, Probed
<1>7. ASSUME NEW p \in Processes, Browse(p) PROVE Owned' /\ Untaken'
  BY <1>0, <1>7 DEF Browse, Types, Owned, Untaken, Probed
<1>8. CASE OtherTakes
  <2>1. PICK a \in Contested : /\ holder[a] = Free /\ holder' = [holder EXCEPT ![a] = Other]
                               /\ Loses(a, Other)
    BY <1>8 DEF OtherTakes
  <2>2. UNCHANGED <<from, at, cfg, opened>> /\ DOMAIN holder = Ports /\ a \in Ports
    BY <1>8, StartupAssumption DEF OtherTakes, procs, Types
  <2>3. \A b \in Ports \ {a} : holder'[b] = holder[b]
    BY <2>1, <2>2
  <2>4. Owned'
    BY <1>0, <2>1, <2>2, <2>3 DEF Owned, Probed
  <2>5. \A p \in Processes : p \notin taken' =>
          p \notin taken /\ (at[p] \in {"opening", "listening"} => cfg[p]["http_addr"] # a)
    <3>1. \A p \in Processes : p # Other
      <4>1. Processes \subseteq Nat
        BY StartupAssumption
      <4>2. \A n \in Nat : n # -1
        OBVIOUS
      <4> QED
        BY <4>1, <4>2 DEF Other
    <3> QED
      BY <2>1, <3>1 DEF Loses
  <2>6. Untaken'
    BY <2>2, <2>3, <2>5 DEF Untaken, Probed
  <2> QED
    BY <2>4, <2>6
<1>9. CASE Over \/ UNCHANGED vars
  BY <1>9 DEF Over, vars, procs, Owned, Untaken
<1> QED
  BY <1>1, <1>2, <1>3, <1>4, <1>5, <1>6, <1>7, <1>8, <1>9 DEF Next

StartInv == Types /\ Loaded /\ Homed /\ Filed /\ Reread /\ Probed /\ Owned /\ Untaken

LEMMA Invariance == Spec => []StartInv
<1>1. Init => StartInv
  <2> SUFFICES ASSUME Init PROVE StartInv
    OBVIOUS
  <2>1. \A p \in Processes : from[p] = "nothing" /\ at[p] = "off" /\ opened[p] = Free
    BY DEF Init
  <2>2. Types
    BY DefaultsProper DEF Init, Types
  <2>3. Filed
    BY DEF Init, Filed
  <2> QED
    BY <2>1, <2>2, <2>3 DEF StartInv, Loaded, Homed, Reread, Probed, Owned, Untaken
<1>2. StartInv /\ [Next]_vars => StartInv'
  BY TypesStep, SettingsStep, FiledStep, RereadStep, PortStep DEF StartInv
<1> QED
  BY <1>1, <1>2, PTL DEF Spec

-----------------------------------------------------------------------------
(* The theorems.                                                           *)

\* A usable value of a setting reaches the process from the source of the highest priority
\* that gives the setting any (Loader.Load: flags, environment, file, defaults), for
\* every way to give the settings.
THEOREM SourcesHavePriority == Spec => []Precedence
<1>1. StartInv => Precedence
  <2> SUFFICES ASSUME StartInv, NEW p \in Processes, from[p] = "given", at[p] = "probing"
               PROVE  LET sources == <<given.flags, given.env, given.file>>
                      IN  /\ \A s \in Settings, k \in 1..3 :
                               Decides(sources, k, s) /\ ~(k = 2 /\ s \in {"report_file", "full_diff"}) =>
                                 {cfg[p][s]} = sources[k][s]
                          /\ \A s \in Settings \ {"db_path"} :
                               (\A k \in 1..3 : sources[k][s] = {}) => cfg[p][s] = Defaults[s]
                          /\ (\A k \in 1..3 : sources[k]["db_path"] = {}) =>
                               cfg[p]["db_path"] = Home(cfg[p]["anki_account"])
    BY DEF Precedence
  <2>1. cfg[p] = Load(given)
    BY DEF StartInv, Loaded
  <2>2. Way(given)
    BY StartupAssumption DEF StartInv, Types, Way
  <2> QED
    BY <2>1, <2>2, LoadPrecedence
<1> QED
  BY <1>1, Invariance, PTL

\* What was in effect when handleConfigSave wrote the file is in effect in a process that
\* is started with it, whatever the settings were and wherever they came from.
THEOREM SavedTakesEffectAgain == Spec => []RestartKeepsEffect
<1>1. StartInv => RestartKeepsEffect
  BY DEF StartInv, Reread, RestartKeepsEffect
<1> QED
  BY <1>1, Invariance, PTL

\* openBrowserWhenReady finds the process's own server, unless another took the port
\* between resolveHTTPAddr and ListenAndServe; for any number of processes.
THEOREM BrowserFindsItsServer == Spec => []BrowserAtOwn
<1>1. StartInv => BrowserAtOwn
  BY DEF StartInv, Untaken, BrowserAtOwn
<1> QED
  BY <1>1, Invariance, PTL
=============================================================================
