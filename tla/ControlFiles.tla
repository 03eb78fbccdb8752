----------------------------- MODULE ControlFiles -----------------------------
(***************************************************************************)
(* The files through which the Telegram bot, the web API and the terminal  *)
(* dashboard command a running sniper.  The sniper's watchers look only at *)
(* whether a file exists; its monitors and its drawdown guard also look    *)
(* for the reason inside.  A file is read and written whole, so its state  *)
(* is the kind of its content.  (High-speed mode is not here: it is the    *)
(* sniper's OneAtATime.)                                                   *)
(***************************************************************************)
VARIABLES
  sellFile,   \* scematica-sell-mode.json
  dumpFile    \* scematica-dump-mode.json exists

controls == <<sellFile, dumpFile>>

(* "old_limit" is a buy_limit file that the running sniper found when it   *)
(* started: its content is the same.  What operators write has no reason.  *)
SellFiles == {"none", "operator", "buy_limit", "old_limit", "max_drawdown"}

LimitFiles == {"buy_limit", "old_limit"}

ControlTypeOK == sellFile \in SellFiles /\ dumpFile \in BOOLEAN

ControlInit == sellFile = "none" /\ dumpFile = FALSE

(* /pause of the bot, the dashboard's sell-mode key, and the web's switch, *)
(* which writes a file to switch off as well as on.                        *)
SellOn == sellFile' = "operator" /\ UNCHANGED dumpFile

(* /resume, the dashboard's [b], or its sell-mode key pressed again: the   *)
(* file goes, whoever wrote it.                                            *)
Resume == sellFile' = "none" /\ UNCHANGED dumpFile

(* /dump once confirmed, the dashboard's key, or the web's switch, on or   *)
(* off.                                                                    *)
Dump == dumpFile' = TRUE /\ UNCHANGED sellFile

DumpOff == dumpFile' = FALSE /\ UNCHANGED sellFile

Operate == SellOn \/ Resume \/ Dump \/ DumpOff
=============================================================================
