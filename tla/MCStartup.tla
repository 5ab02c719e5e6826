------------------------------- MODULE MCStartup -------------------------------
(* Startup on small instances: each way to give one setting, or both paths. *)
EXTENDS Startup

\* What a source may give a setting, if anything; its own value tells it from the others.
Choices(s, text, mode, number, none) ==
  {{}} \union
  CASE s \in Numbers -> {{none}, {number}}
    [] s \in Switches -> {{FALSE}, {TRUE}}
    [] s = "pragma_journal_mode" -> {{""}, {mode}}
    [] OTHER -> {{""}, {text}}
OneSetting(s) ==
  LET Only(choices) == {[Nothing EXCEPT ![s] = c] : c \in choices}
  IN  [file : Only(Choices(s, "F", "delete", 7, 0)),
       env : Only(Choices(s, "E", "bad", 8, -1)),
       flags : Only(Choices(s, "C", "MEMORY", 9, 0))]
TwoPaths ==
  LET Both(text) == {[Nothing EXCEPT !.db_path = c, !.anki_account = d] :
                     c \in {{}, {text}}, d \in {{}, {text}}}
  IN  [file : Both("F"), env : Both("E"), flags : Both("C")]
MCGiven == TwoPaths \union UNION {OneSetting(s) : s \in Settings \ {"verbose", "pragma_busy_timeout", "pragma_synchronous"}}
=============================================================================
