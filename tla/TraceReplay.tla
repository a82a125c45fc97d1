----------------------------- MODULE TraceReplay -----------------------------
(***************************************************************************)
(* The replay of a trace: prompts made of token blocks by their hash ids   *)
(* (data/deserializers/trace_common.py, trace_mooncake.py, trace_weka.py), *)
(* the times of the sessions (trace_session_timing.py) and the loader that *)
(* deals the conversations out (data/loaders/torch.py).  A trace is read   *)
(* again in every epoch, and the hash table of its format stays.           *)
(***************************************************************************)
EXTENDS Integers, Sequences, SequencesExt, FiniteSets, FiniteSetsExt

CONSTANTS
  Replays,     \* the configurations with their traces, see Rows
  BlockSize,   \* hash_id_block_size
  Texts,       \* what random text may turn out
  Epochs       \* bound on the number of times a trace is read

ASSUME ReplayAssumption ==
  BlockSize \in Nat \ {0} /\ Epochs \in Nat \ {0} /\ {"rest", "special"} \cap Texts = {}

VARIABLES
  replay,     \* the configuration; never changes
  epoch,      \* how often the trace is being read, from 1
  table,      \* hash_id_table of the format, or the one of a local conversation
  written,    \* prompts of the conversation being built
  clock,      \* TraceSessionTiming: end of the last session, placed starts and ends
  replayed,   \* the conversations yielded in each epoch
  finished    \* the iteration has ended, for want of rows or by an exception

replayVars == <<replay, epoch, table, written, clock, replayed, finished>>

-----------------------------------------------------------------------------
(* Rows *)

\* A configuration is a trace with its format, wait, idle and lanes (0 when unset) and
\* scale, the loader's samples (-1 for all) and workers, and two habits of the tokenizer:
\* how many special tokens encode() puts first, and how many tokens the space costs that
\* joins two texts.  A conversation has a scope, rows, each with a time, a number of tokens
\* and hash ids, and an outcome: the preprocessors and the finalizer make something of it
\* ("good"), nothing ("empty"), or raise ("broken").
SingleTurn == replay.format \in {"mooncake", "minimal"}

\* SingleTurnTraceFormat sorts the rows, the WEKA format keeps the order of the file.
Conversations ==
  IF SingleTurn THEN SortSeq(replay.trace, LAMBDA c, d : c.rows[1].time < d.rows[1].time)
  ELSE replay.trace

Position == Len(replayed[epoch]) + 1
Current == Conversations[Position]
Row == Current.rows[Len(written) + 1]
Scope == Current.scope

Whole(row) == row.tokens \div BlockSize
Remainder(row) == row.tokens % BlockSize
Blocks(row) == Whole(row) + (IF Remainder(row) = 0 THEN 0 ELSE 1)

\* _validate_row and validate_row of the formats.  A partial block at the end may have an id
\* of its own with the WEKA format, and must have one with Mooncake's.
ValidCount(row) == row.tokens >= 0
ValidIds(row) == replay.format = "minimal" \/ \A i \in DOMAIN row.ids : row.ids[i] >= 0
ValidBlocks(row) ==
  CASE replay.format = "mooncake" -> Len(row.ids) = Blocks(row)
    [] replay.format = "weka" -> Len(row.ids) \in {Whole(row), Blocks(row)}
    [] replay.format = "minimal" -> TRUE
ValidRow(row) == ValidCount(row) /\ ValidIds(row) /\ ValidBlocks(row)

\* The id of a partial block is dropped by the WEKA format, whose prompts end in text of
\* their own.
KeptIds(row) ==
  CASE replay.format = "weka" -> SubSeq(row.ids, 1, Whole(row))
    [] replay.format = "mooncake" -> row.ids
    [] replay.format = "minimal" -> <<>>

\* _calculate_required_prompt_tokens.
BlockLength(row, id) ==
  IF replay.format = "mooncake" /\ Last(row.ids) = id /\ Remainder(row) # 0 THEN Remainder(row)
  ELSE BlockSize

Rest(row) ==
  CASE replay.format = "mooncake" -> 0
    [] replay.format = "weka" -> Remainder(row)
    [] replay.format = "minimal" -> row.tokens

-----------------------------------------------------------------------------
(* Tokens and texts *)

\* generate_token_ids takes the first tokens that encode() makes of random text, the special
\* ones among them.
Block(text, length) == <<IF length <= replay.specials THEN "special" ELSE text, length>>

\* decode_prompt leaves the special tokens out: the text and how many tokens it stands for.
Decoded(block) == <<block[1], Max({0, block[2] - replay.specials})>>
Says(piece) == piece[2] > 0

-----------------------------------------------------------------------------
(* Hash ids *)

NoHashId == -1
IdBefore(ids, id) ==
  LET at == SelectInSeq(ids, LAMBDA i : i = id) IN IF at = 1 THEN NoHashId ELSE ids[at - 1]

\* fill_hash_id_table for the first ids of a row: a new id gets a block, remembered under
\* the id before it.
Filled(row, ids, text, known) ==
  [id \in DOMAIN known \cup ToSet(ids) |->
     IF id \in DOMAIN known THEN known[id]
     ELSE [block |-> Block(text[id], BlockLength(row, id)), after |-> IdBefore(ids, id)]]

\* create_distinct_token_block: no two blocks after the same id are alike.
Siblings(filled, ids) ==
  \A a \in ids, b \in DOMAIN filled :
    a # b /\ filled[a].after = filled[b].after => filled[a].block # filled[b].block

\* The tables that Number of ids of a row may leave.
Fillings(row, number) ==
  LET ids == SubSeq(KeptIds(row), 1, number)
      new == ToSet(ids) \ DOMAIN table[Scope]
  IN {filled \in {Filled(row, ids, text, table[Scope]) : text \in [new -> Texts]} : Siblings(filled, new)}

\* The pieces of a prompt, and whether a space joins the blocks and the remainder, which
\* the WEKA format puts where both say something.
Prompt(row, known) ==
  LET blocks == [i \in DOMAIN KeptIds(row) |-> Decoded(known[KeptIds(row)[i]].block)]
      rest == IF Rest(row) = 0 THEN <<>> ELSE <<Decoded(Block("rest", Rest(row)))>>
  IN [pieces |-> blocks \o rest,
      joined |-> replay.format = "weka" /\ (\E b \in ToSet(blocks) : Says(b)) /\ (\E r \in ToSet(rest) : Says(r))]

-----------------------------------------------------------------------------
(* Times *)

NoClock == [last |-> -1, starts |-> <<>>, ends |-> <<>>]

\* relative_timestamp_column: from the start of the trace, or of the conversation.
RelativeTimes(conversation) ==
  LET times == {conversation.rows[i].time : i \in DOMAIN conversation.rows}
      from == IF SingleTurn THEN Conversations[1].rows[1].time ELSE Min(times)
  IN [i \in DOMAIN conversation.rows |-> conversation.rows[i].time - from]

Shifted(times, by) == [i \in DOMAIN times |-> times[i] - by]

\* _compress_intra_session_gaps: what has been trimmed before an instant.
TrimmedBefore(times, t) ==
  LET instants == {u \in Range(times) : u <= t}
      gap(u) == u - Max({v \in instants : v < u})
      excess(u) == IF u = Min(instants) THEN 0 ELSE Max({0, gap(u) - replay.wait})
  IN MapThenSumSet(excess, instants)
Compressed(times) ==
  IF replay.wait = 0 THEN times ELSE [i \in DOMAIN times |-> times[i] - TrimmedBefore(times, times[i])]

\* _compress_inter_session_gap: the idle time from the last session's end is trimmed.
IdleTrim(times) ==
  IF replay.idle = 0 \/ clock.last = -1 THEN 0
  ELSE Max({0, Min(Range(times)) - clock.last - replay.idle})

\* _pack_min_concurrent_sessions: where a session that would start at start is put.
\* Sessions of one row end where they start, and WEKA sessions all start at 0.
LaneStart(start) ==
  IF replay.lanes = 0 \/ clock.ends = <<>> THEN start
  ELSE Min({start, IF Len(clock.ends) < replay.lanes THEN clock.starts[1]
                   ELSE clock.ends[Len(clock.ends) - replay.lanes + 1]})

-----------------------------------------------------------------------------
(* The loader *)

\* What DatasetsIterator.generator makes of the first n conversations with the given modulus,
\* offset and limit (0 for none): a row that fails is taken back from the count, one of
\* which nothing is left stays in it.
Generated(n, modulus, offset, limit) ==
  LET taken[i \in 0 .. n] ==
        IF i = 0 THEN [count |-> 0, items |-> <<>>]
        ELSE LET was == taken[i - 1]
                 count == was.count + 1
                 outcome == IF count % modulus = offset THEN Conversations[i].outcome ELSE "empty"
             IN CASE limit # 0 /\ was.count >= limit -> was
                  [] outcome = "broken" -> was
                  [] outcome = "empty" -> [was EXCEPT !.count = count]
                  [] OTHER -> [count |-> count, items |-> Append(was.items, i)]
  IN taken[n]

\* The ValueErrors at the end of generator, after n conversations and, if failed, an
\* exception of the trace itself, which takes one back from the count too.
Rejects(n, failed, modulus, offset, limit) ==
  LET got == Generated(n, modulus, offset, limit)
      count == got.count - (IF failed THEN 1 ELSE 0)
  IN \/ count > 0 /\ got.items = <<>>
     \/ limit # 0 /\ count < limit

\* The samples are generated once, when the loader is made; -1 leaves an empty list, which
\* __iter__ takes for none.
Precached == replay.samples > 0
Wanted == ~Precached \/ Generated(Len(replayed[epoch]), 1, 0, replay.samples).count < replay.samples

\* What each data worker is given of n conversations: the samples dealt out, or what its
\* own generator picks.
Dealt(n) ==
  LET kept == Generated(n, 1, 0, replay.samples).items
  IN [w \in 0 .. replay.workers - 1 |->
        IF Precached THEN {kept[i] : i \in {j \in DOMAIN kept : (j - 1 + w) % replay.workers = 0}}
        ELSE ToSet(Generated(n, replay.workers, w, 0).items)]

\* The pass has ended in an exception of the trace.
Broke == finished /\ Wanted /\ Position <= Len(Conversations)

\* Making the loader, or a data worker of this pass, has ended in a ValueError.
Rejected ==
  LET n == Len(replayed[epoch]) IN
  finished /\ IF Precached THEN Rejects(n, Broke, 1, 0, replay.samples)
              ELSE \E w \in 0 .. replay.workers - 1 : Rejects(n, Broke, replay.workers, w, 0)

-----------------------------------------------------------------------------
(* A pass over the trace *)

NoTable == [global |-> <<>>, local |-> <<>>]

ReplayInit ==
  /\ replay \in Replays
  /\ epoch = 1 /\ table = NoTable /\ written = <<>> /\ clock = NoClock
  /\ replayed = <<<<>>>> /\ finished = FALSE

Underway == ~finished /\ Wanted /\ Position <= Len(Conversations)
Building == Underway /\ Len(written) < Len(Current.rows)

\* create_prompt for the next row of the conversation.
WritesPrompt ==
  /\ Building /\ ValidRow(Row)
  /\ \E filled \in Fillings(Row, Len(KeptIds(Row))) :
       /\ table' = [table EXCEPT ![Scope] = filled]
       /\ written' = Append(written, Prompt(Row, filled))
  /\ UNCHANGED <<replay, epoch, clock, replayed, finished>>

\* No block differs from its siblings within max_attempts: the ids before keep theirs.
NoBlockFound ==
  LET ids == KeptIds(Row) IN
  \E i \in DOMAIN ids : \E filled \in Fillings(Row, i - 1) :
    /\ ids[i] \notin DOMAIN filled
    /\ \E b \in DOMAIN filled : filled[b].after = IdBefore(ids, ids[i])
    /\ table' = [table EXCEPT ![Scope] = filled]

\* An exception ends the generator of the trace, and with it the pass: the loader takes it
\* for a row that fails and finds nothing behind it.  A WEKA conversation without a request
\* raises one too.
RowFails ==
  /\ Underway
  /\ \/ Current.rows = <<>> /\ UNCHANGED table
     \/ Building /\ ~ValidRow(Row) /\ UNCHANGED table
     \/ Building /\ ValidRow(Row) /\ NoBlockFound
  /\ finished' = TRUE
  /\ UNCHANGED <<replay, epoch, written, clock, replayed>>

\* TraceSessionTiming.apply, then the conversation is yielded.
Yields ==
  /\ Underway /\ ~Building /\ Current.rows # <<>>
  /\ LET times == Compressed(RelativeTimes(Current))
         idled == Shifted(times, IdleTrim(times))
         start == Min(Range(idled))
         end == Max(Range(idled))
         placed == LaneStart(start)
         timed == [i \in DOMAIN idled |-> replay.scale * (idled[i] - (start - placed))]
     IN /\ clock' = [last |-> IF replay.idle = 0 THEN -1 ELSE Max({clock.last, end}),
                     starts |-> IF replay.lanes = 0 THEN <<>> ELSE Append(clock.starts, placed),
                     ends |-> IF replay.lanes = 0 THEN <<>> ELSE Append(clock.ends, placed + end - start)]
        /\ replayed' = [replayed EXCEPT ![epoch] = Append(@, [times |-> timed, prompts |-> written])]
  /\ table' = [table EXCEPT !.local = <<>>] /\ written' = <<>>
  /\ UNCHANGED <<replay, epoch, finished>>

\* The trace has no more conversations, or the loader takes no more.
EndsTrace ==
  /\ ~finished /\ (Position > Len(Conversations) \/ ~Wanted)
  /\ finished' = TRUE
  /\ UNCHANGED <<replay, epoch, table, written, clock, replayed>>

\* Another benchmark iterates the loader again, whether or not the pass before has ended;
\* what has been generated beforehand is not read again.  A data worker process starts with
\* an empty table in every epoch, but with the same seed: it draws the same texts again.
\* Mutant: the timing is the one of the dataset.
RestartClockKept == clock
RestartClock == NoClock
Restarts ==
  /\ epoch < Epochs /\ ~Precached /\ (finished \/ written = <<>>)
  /\ epoch' = epoch + 1 /\ replayed' = Append(replayed, <<>>)
  /\ clock' = RestartClock
  /\ table' = [table EXCEPT !.local = <<>>] /\ written' = <<>> /\ finished' = FALSE
  /\ UNCHANGED replay

ReplayNext == WritesPrompt \/ RowFails \/ Yields \/ EndsTrace \/ Restarts

ReplaySpec == ReplayInit /\ [][ReplayNext]_replayVars

-----------------------------------------------------------------------------
(* Properties *)

Sessions == {<<e, k>> : e \in 1 .. epoch, k \in 1 .. Len(Conversations)}
Yielded == {s \in Sessions : s[2] <= Len(replayed[s[1]])}
TimesOf(s) == replayed[s[1]][s[2]].times
PromptsOf(s) == replayed[s[1]][s[2]].prompts
RowsOf(s) == Conversations[s[2]].rows

ReplayTypeOK ==
  /\ epoch \in 1 .. Epochs /\ Len(replayed) = epoch
  /\ finished \in BOOLEAN /\ Len(written) <= Max({Len(c.rows) : c \in ToSet(replay.trace)})
  /\ \A s \in Yielded : Len(TimesOf(s)) = Len(RowsOf(s)) /\ Len(PromptsOf(s)) = Len(RowsOf(s))
  /\ Len(clock.starts) = Len(clock.ends)

\* Neighbours in a session keep their distance up to the wait, scaled, whatever has been
\* trimmed before them and wherever the session is put.
SpacingIsKept ==
  \A s \in Yielded : \A i, j \in DOMAIN RowsOf(s) :
    LET gap == RowsOf(s)[j].time - RowsOf(s)[i].time IN
    gap >= 0 /\ (\A h \in DOMAIN RowsOf(s) : RowsOf(s)[h].time <= RowsOf(s)[i].time
                                            \/ RowsOf(s)[h].time >= RowsOf(s)[j].time) =>
      TimesOf(s)[j] - TimesOf(s)[i] = replay.scale * (IF replay.wait = 0 THEN gap ELSE Min({gap, replay.wait}))

\* No request is put before the start of the trace, nor later than the trace has it.
NeverLater ==
  \A s \in Yielded : \A i \in DOMAIN RowsOf(s) :
    TimesOf(s)[i] \in 0 .. replay.scale * RelativeTimes(Conversations[s[2]])[i]

\* After all that came before it, a session starts within the idle time.
IdleIsCapped ==
  replay.idle # 0 =>
    \A s \in {y \in Yielded : y[2] > 1} :
      Min(Range(TimesOf(s)))
        - Max(UNION {Range(TimesOf(<<s[1], k>>)) : k \in 1 .. s[2] - 1}) <= replay.scale * replay.idle

\* Until one of the last so many sessions has ended, min_concurrent_sessions of them overlap
\* at every instant, from the first start on.
Start(s) == Min(Range(TimesOf(s)))
End(s) == Max(Range(TimesOf(s)))
SessionsOverlap ==
  LET n == replay.lanes IN
  n # 0 =>
    \A e \in 1 .. epoch :
      LET yielded == {s \in Yielded : s[1] = e}
          last == {s \in yielded : s[2] > Cardinality(yielded) - n}
      IN Cardinality(yielded) >= n =>
           \A t \in Start(<<e, 1>>) .. Min({End(s) : s \in last}) :
             Cardinality({s \in yielded : Start(s) <= t /\ t <= End(s)}) >= n

\* Two rows look their ids up in one table.
ShareTable(s, u) ==
  IF Conversations[s[2]].scope = "local" THEN s = u ELSE Conversations[u[2]].scope = "global"

\* The ids of the trace name prefixes, as the formats require: one that occurs twice stands
\* behind the same ids and for as many tokens.
NamesPrefixes ==
  \A s, u \in Sessions : ShareTable(s, u) =>
    \A row \in Range(RowsOf(s)), other \in Range(RowsOf(u)) :
      ValidRow(row) /\ ValidRow(other) =>
        \A i \in DOMAIN KeptIds(row), j \in DOMAIN KeptIds(other) :
          row.ids[i] = other.ids[j] =>
            /\ SubSeq(row.ids, 1, i) = SubSeq(other.ids, 1, j)
            /\ BlockLength(row, row.ids[i]) = BlockLength(other, row.ids[i])

\* The text of a prompt stands for as many tokens as its row says, less the special tokens
\* lost in each piece, and with what the joining space costs; with the WEKA format whatever
\* the ids.
PromptsFitRows ==
  Yielded # {} /\ (replay.format = "weka" \/ NamesPrefixes) =>
    \A s \in Yielded : \A i \in DOMAIN RowsOf(s) :
      LET prompt == PromptsOf(s)[i]
          space == IF prompt.joined THEN replay.joint ELSE 0
          tokens == FoldLeft(LAMBDA sum, piece : sum + piece[2], space, prompt.pieces)
      IN tokens \in RowsOf(s)[i].tokens - replay.specials * Len(prompt.pieces)
                    .. RowsOf(s)[i].tokens + replay.joint

\* Two prompts begin with the same blocks exactly as far as their ids agree, in whichever
\* order, epoch and conversation they are made: the server's prefix cache sees the hits
\* of the trace and no others.
PrefixesAreShared ==
  Yielded # {} /\ NamesPrefixes =>
    \A s, u \in Yielded : ShareTable(s, u) =>
      \A i \in DOMAIN RowsOf(s), j \in DOMAIN RowsOf(u) :
        LET ids == KeptIds(RowsOf(s)[i]) others == KeptIds(RowsOf(u)[j]) IN
        \A n \in 1 .. Min({Len(ids), Len(others)}) :
          SubSeq(ids, 1, n) = SubSeq(others, 1, n)
            <=> SubSeq(PromptsOf(s)[i].pieces, 1, n) = SubSeq(PromptsOf(u)[j].pieces, 1, n)

\* Every epoch replays the trace at the same times.
EpochsAgree ==
  \A s, u \in Yielded : s[2] = u[2] => TimesOf(s) = TimesOf(u)

\* Every good conversation goes to one data worker: all that are read, or those among the
\* first so many samples that do not fail.  Without samples this is said of one worker, or of
\* traces without a failing row, which moves the count of one worker only.  A loader is
\* rejected exactly when there are not so many samples, or none is good; a data worker is
\* not as long as good conversations go round.
DealtOnce ==
  LET n == Len(replayed[epoch])
      whole == {k \in 1 .. n : Conversations[k].outcome # "broken"}
      first == {k \in whole : Precached => Cardinality({j \in whole : j <= k}) <= replay.samples}
      good == {k \in first : Conversations[k].outcome = "good"}
      dealt == Dealt(n)
  IN /\ IF Precached
        THEN finished => (Rejected <=> Cardinality(first) < replay.samples \/ good = {})
        ELSE good = 1 .. n /\ n >= replay.workers => ~Rejected
     /\ (Precached => finished /\ ~Rejected) /\ (Precached \/ replay.workers = 1 \/ whole = 1 .. n) =>
          \A k \in 1 .. n : Cardinality({w \in DOMAIN dealt : k \in dealt[w]}) = IF k \in good THEN 1 ELSE 0

\* A trace is replayed at its times, shortened as configured and the same in every epoch,
\* with prompts of its lengths as far as the tokenizer allows, which share the prefixes its
\* hash ids name, and every good conversation once.
TraceIsReplayed ==
  /\ ReplayTypeOK /\ SpacingIsKept /\ NeverLater /\ IdleIsCapped /\ SessionsOverlap
  /\ PromptsFitRows /\ PrefixesAreShared /\ EpochsAgree /\ DealtOnce
=============================================================================
