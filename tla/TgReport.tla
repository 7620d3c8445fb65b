------------------------------ MODULE TgReport ------------------------------
(***************************************************************************)
(* The trade statistics behind the Telegram digest (src/lib/telegram.py):  *)
(* counted in memory, saved to a file after every trade, taken up again    *)
(* from it at the start, and sent and cleared by a background loop.        *)
(*                                                                         *)
(* The program runs once per exchange, and every one of these bots uses    *)
(* the same file.  Sending is the only await of the module, so trades that *)
(* end meanwhile come between the text of a digest and the clearing.  The  *)
(* file is rewritten in place: a process killed while it writes leaves one *)
(* that cannot be read.  A save that fails is only warned of, and the bot  *)
(* goes on.  Trades are numbered as they end.                              *)
(***************************************************************************)
EXTENDS Integers, FiniteSets

CONSTANTS
  Bots,      (* processes, each for an exchange                             *)
  Silent,    (* those without Telegram in their configuration               *)
  MaxTrades  (* bound on the trades that end                                *)

ASSUME ReportAssumption == Silent \subseteq Bots /\ MaxTrades \in Nat

VARIABLES
  up,          (* the bots that run                                         *)
  stats,       (* bot -> _stats: the trades it counts                       *)
  statsFile,   (* what .cache/tg_stats.pkl holds                            *)
  digest,      (* bot -> the trades in the text it is sending               *)
  finished,    (* history: trades that ended                                *)
  delivered,   (* history: trades in digests that arrived                   *)
  twice,       (* history: trades that arrived in two                       *)
  undelivered, (* history: trades in digests that did not arrive            *)
  overtaken,   (* history: trades that ended while a digest was being sent  *)
  torn,        (* history: trades last written to a file that is unreadable *)
  unsaved,     (* history: trades no save has put on file, as one failed    *)
  uncleared,   (* history: trades on file after a digest, as a save failed  *)
  overwritten, (* history: trades on file that a save did not keep          *)
  redone,      (* history: trades in digests whose sender died              *)
  mixed        (* history: two bots ran at once, or a silent one saved      *)

saveHistories == <<torn, unsaved, uncleared, overwritten>>
histories == <<finished, delivered, twice, undelivered, overtaken, redone, saveHistories>>
statsVars == <<up, stats, statsFile, digest, mixed, histories>>

Trades == 1..MaxTrades
Unreadable == {0}
OnFile == IF statsFile = Unreadable THEN {} ELSE statsFile

StatsInit ==
  /\ up = {}
  /\ stats = [b \in Bots |-> {}]
  /\ statsFile = {}
  /\ digest = [b \in Bots |-> {}]
  /\ finished = {} /\ delivered = {} /\ twice = {} /\ undelivered = {}
  /\ overtaken = {} /\ redone = {}
  /\ torn = {} /\ unsaved = {} /\ uncleared = {} /\ overwritten = {}
  /\ mixed = FALSE

(* Broken: a bot counts from nothing.                                      *)
LoadedFresh(b) == {}

(* What start() takes up; a file that cannot be read is deleted.           *)
Loaded(b) == IF b \in Silent THEN {} ELSE OnFile

Starts(b) ==
  /\ b \notin up
  /\ up' = up \cup {b}
  /\ stats' = [stats EXCEPT ![b] = Loaded(b)]
  /\ statsFile' = IF b \in Silent THEN statsFile ELSE OnFile
  /\ mixed' = (mixed \/ up # {})
  /\ UNCHANGED <<digest, histories>>

(* Broken: a trade is not saved before the next digest.                    *)
StatsSavedLater(trades, counted) == UNCHANGED <<statsFile, saveHistories>>

(* Written; or not, as the file cannot be opened; or in part, as the disk  *)
(* is full.  counted: what the bot has counted since the last digest.      *)
StatsSaved(trades, counted) ==
  \/ /\ statsFile' = trades
     /\ overwritten' = overwritten \cup (OnFile \ counted)
     /\ unsaved' = unsaved \ trades
     /\ torn' = torn \ trades
     /\ UNCHANGED uncleared
  \/ /\ unsaved' = unsaved \cup (trades \ OnFile)
     /\ uncleared' = uncleared \cup ((OnFile \cap counted) \ trades)
     /\ UNCHANGED <<statsFile, torn, overwritten>>
  \/ /\ statsFile' = Unreadable
     /\ torn' = torn \cup OnFile \cup trades
     /\ UNCHANGED <<unsaved, uncleared, overwritten>>

(* on_trade_stop counts and saves, whoever is notified.                    *)
TradeCounted(b) ==
  LET t == Cardinality(finished) + 1 IN
  /\ b \in up
  /\ t \in Trades
  /\ finished' = finished \cup {t}
  /\ stats' = [stats EXCEPT ![b] = @ \cup {t}]
  /\ StatsSaved(stats'[b], stats'[b])
  /\ mixed' = (mixed \/ b \in Silent)
  /\ UNCHANGED <<up, digest, delivered, twice, undelivered, overtaken, redone>>

(* The loop wakes: an empty digest is not sent.                            *)
DigestStarts(b) ==
  /\ b \in up \ Silent
  /\ digest[b] = {}
  /\ digest' = [digest EXCEPT ![b] = stats[b]]
  /\ UNCHANGED <<up, stats, statsFile, mixed, histories>>

(* send answers None when it fails, and nobody looks: cleared either way,  *)
(* with what ended in between.                                             *)
Cleared(b) ==
  /\ stats' = [stats EXCEPT ![b] = {}]
  /\ StatsSaved({}, stats[b])

Arrives(trades) ==
  /\ delivered' = delivered \cup trades
  /\ twice' = twice \cup (delivered \cap trades)

DigestSent(b) ==
  /\ digest[b] # {}
  /\ \/ Arrives(digest[b]) /\ UNCHANGED undelivered
     \/ undelivered' = undelivered \cup digest[b] /\ UNCHANGED <<delivered, twice>>
  /\ overtaken' = overtaken \cup (stats[b] \ digest[b])
  /\ digest' = [digest EXCEPT ![b] = {}]
  /\ Cleared(b)
  /\ UNCHANGED <<up, mixed, finished, redone>>

(* The process dies, perhaps while it writes the file, or with a digest on *)
(* its way.                                                                *)
Dies(b) ==
  /\ b \in up
  /\ up' = up \ {b}
  /\ \/ Arrives(digest[b])
     \/ UNCHANGED <<delivered, twice>>
  /\ \/ UNCHANGED <<statsFile, torn>>
     \/ statsFile' = Unreadable /\ torn' = torn \cup OnFile \cup stats[b]
  /\ redone' = redone \cup digest[b]
  /\ stats' = [stats EXCEPT ![b] = {}]
  /\ digest' = [digest EXCEPT ![b] = {}]
  /\ UNCHANGED <<mixed, finished, undelivered, overtaken, unsaved, uncleared, overwritten>>

StatsNext ==
  \E b \in Bots :
    Starts(b) \/ TradeCounted(b) \/ DigestStarts(b) \/ DigestSent(b) \/ Dies(b)

StatsSpec == StatsInit /\ [][StatsNext]_statsVars

-----------------------------------------------------------------------------
StatsTypeOK ==
  /\ up \subseteq Bots
  /\ stats \in [Bots -> SUBSET Trades]
  /\ statsFile \in (SUBSET Trades) \cup {Unreadable}
  /\ digest \in [Bots -> SUBSET Trades]
  /\ \A h \in {finished, delivered, twice, undelivered, overtaken, redone,
               torn, unsaved, uncleared, overwritten} : h \subseteq Trades
  /\ mixed \in BOOLEAN

Counted == OnFile \cup UNION {stats[b] : b \in up}

(* A finished trade was delivered or is still counted, and each one that   *)
(* is missing is accounted for: it ended while a digest was being sent and *)
(* was cleared with it (telegram.py:166), its digest did not arrive, the   *)
(* file was torn, no save has put it on file since one failed, or another  *)
(* bot's save threw it out.                                                *)
TradesAccounted ==
  finished \subseteq delivered \cup Counted \cup undelivered \cup overtaken
                       \cup torn \cup unsaved \cup overwritten

(* A bot that runs alone keeps what an earlier run, of itself or another,  *)
(* has left on file: only bots that run side by side, or one without       *)
(* Telegram, throw out each other's trades.  Those of a digest that was    *)
(* sent are not kept if they stayed on file because a save failed.         *)
OverwrittenByOthers == overwritten \subseteq uncleared \/ mixed

(* No trade is reported in two digests, unless the process died sending,   *)
(* the save after the digest failed and left it on file, or bots run side  *)
(* by side, which each report what both have loaded.                       *)
ReportedOnce == twice \subseteq redone \cup uncleared \/ mixed

(* A bot that runs alone keeps its statistics over restarts and digests,   *)
(* and counts none twice: a save that fails after a digest is the only one *)
(* that leaves trades to be thrown out, or to be reported again.           *)
AloneIsSafe == OverwrittenByOthers /\ ReportedOnce
=============================================================================
