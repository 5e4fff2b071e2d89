---------------------------- MODULE SourceCache ----------------------------
(***************************************************************************)
(* srcPropertyProcess (fpga_cache.h): the processes that attach to every   *)
(* edge the property of its source vertex, read from a direct-mapped URAM  *)
(* cache that is filled ahead of the edges.                                *)
(*                                                                         *)
(*   source indices --> duplicateStreamForCache --> streamDelayScheme2     *)
(*                          |                           |                  *)
(*                          v                           v                  *)
(*                     stream2Command              streamMerge <-- edges   *)
(*                          | commands                  | blocks           *)
(*                          v                           v                  *)
(*                     updateVertexCache -- lines --> readEdgesStage       *)
(*                                                                         *)
(* The edges of a sub-partition come as blocks of sixteen, sorted by       *)
(* source.  A block is here the pair of its first and last source (lanes   *)
(* 0 and 15, the only ones the control looks at).  Streams whose n-th      *)
(* token is the n-th block are counters of tokens written; the command     *)
(* and line streams are sequences.  The properties a line carries are the  *)
(* line's own address, so that a stale read is a wrong address.            *)
(***************************************************************************)
EXTENDS Integers, Sequences

CONSTANTS
  Inputs,       \* the sub-partitions considered: sequences of blocks
  LineSize,     \* vertices in a cache line (SIZE_BY_INT)
  BurstLines,   \* lines read from memory at a time (CACHE_UPDATE_BURST)
  CacheSize,    \* vertices the cache holds (CACHE_SIZE)
  Margin,       \* the literal 64 of the window and of the look-ahead
  StreamDepth,  \* depth of the small streams (2)
  CmdDepth,     \* depth of cmdStream (512)
  LineDepth,    \* depth of cacheUpdateStream (512)
  DelayBuffer,  \* DELAY_BUFFER (512)
  PoolSize,     \* POOL_SIZE (4096)
  Magic,        \* the literal 16 of streamDelayScheme2
  ENDFLAG       \* 2^32 - 1: beyond every line asked for (vertices are ints)

Burst == LineSize * BurstLines
IsBlock(b) == /\ b.lo \in Nat /\ b.hi \in Nat /\ b.lo <= b.hi
              /\ b.hi + Margin + 3 * Burst <= ENDFLAG

ASSUME CacheAssumption ==
  /\ {LineSize, BurstLines, StreamDepth, CmdDepth, LineDepth, DelayBuffer}
       \subseteq Nat \ {0}
  /\ CacheSize \in Nat /\ CacheSize % LineSize = 0
  /\ Margin \in Nat /\ LineSize <= Margin /\ Margin < CacheSize
  /\ PoolSize \in Nat /\ PoolSize >= DelayBuffer + 2
  /\ Magic \in Nat /\ ENDFLAG \in Nat /\ Margin + 3 * Burst <= ENDFLAG
  /\ \A s \in Inputs :
       /\ s \in Seq([lo : Nat, hi : Nat])
       /\ \A k \in DOMAIN s : IsBlock(s[k])
       /\ \A j, k \in DOMAIN s : j < k => s[j].hi <= s[k].lo

VARIABLES
  input,       \* the blocks of this sub-partition
  endData,     \* what the end token of the source stream happens to carry
  dup1, dup2,  \* tokens duplicateStreamForCache wrote to its two outputs
  gr_counter, gw_counter,  \* streamDelayScheme2: tokens read and written
  end_flag, delaying,      \* its end flag; "loop", "flush" or "done"
  taken, merged,           \* streamMerge: tokens read, blocks written
  mapped, last_index,      \* stream2Command: tokens read, last burst asked
  issuing,     \* commands of the current token not yet written
  cmdStream,
  fetch,       \* updateVertexCache: the rest of the command it works on
  cacheStream, \* the line addresses on their way
  caching_value, processing_value, min_processing_value,
  held,        \* the line read but not yet put in the cache (cache_data[1])
  blocks,      \* processing_counter: blocks readEdgesStage read
  break_flag,
  vertexPropCache

dupVars   == <<dup1, dup2>>
delayVars == <<gr_counter, gw_counter, end_flag, delaying>>
mergeVars == <<taken, merged>>
cmdVars   == <<mapped, last_index, issuing>>
readVars  == <<caching_value, processing_value, min_processing_value, held,
               blocks, break_flag, vertexPropCache>>
vars == <<input, endData, dupVars, delayVars, mergeVars, cmdVars, cmdStream,
          fetch, cacheStream, readVars>>
-----------------------------------------------------------------------------
\* Tokens 1 .. n carry blocks, token n + 1 is the end token.
EndToken == Len(input) + 1
Data(k)  == IF k <= Len(input) THEN input[k] ELSE endData

NoLine  == -1
NoIndex == -1
EndLine == ENDFLAG - (LineSize - 1)

Line(v) == (v \div LineSize) * LineSize
Slot(v) == (v % CacheSize) \div LineSize
Index(v) == v \div Burst

Idle == [at |-> 0, stop |-> 0, end |-> FALSE]

Init ==
  /\ input \in Inputs
  \* uninitialised: zero, or what the registers held last
  /\ endData \in {[lo |-> 0, hi |-> 0]} \cup {input[k] : k \in {Len(input)} \cap DOMAIN input}
  /\ dup1 = 0 /\ dup2 = 0
  /\ gr_counter = 0 /\ gw_counter = 0
  /\ end_flag = FALSE /\ delaying = "loop"
  /\ taken = 0 /\ merged = 0
  /\ mapped = 0 /\ last_index = NoIndex /\ issuing = <<>>
  /\ cmdStream = <<>>
  /\ fetch = Idle
  /\ cacheStream = <<>>
  /\ caching_value = 0 /\ processing_value = 0 /\ min_processing_value = 0
  /\ held = NoLine
  /\ blocks = 0
  /\ break_flag = FALSE
  /\ vertexPropCache = [s \in 0 .. (CacheSize \div LineSize - 1) |-> NoLine]
-----------------------------------------------------------------------------
(***************************************************************************)
(* duplicateStreamForCache: every token goes to the delay, then to the     *)
(* command generator.                                                      *)
(***************************************************************************)
DupToDelay ==
  /\ dup1 = dup2 /\ dup1 < EndToken
  /\ dup1 - gr_counter < StreamDepth
  /\ dup1' = dup1 + 1
  /\ UNCHANGED dup2

DupToCommand ==
  /\ dup2 < dup1
  /\ dup2 - mapped < StreamDepth
  /\ dup2' = dup2 + 1
  /\ UNCHANGED dup1

Duplicate ==
  /\ DupToDelay \/ DupToCommand
  /\ UNCHANGED <<input, endData, delayVars, mergeVars, cmdVars, cmdStream,
                 fetch, cacheStream, readVars>>
-----------------------------------------------------------------------------
(***************************************************************************)
(* streamDelayScheme2: keeps DelayBuffer tokens back, so that the cache is *)
(* filled ahead.  One iteration writes and reads at most one token, both   *)
(* without blocking.  The code leaves end_flag unset in an iteration that  *)
(* reads nothing: it keeps its value or reads as zero (a third outcome, an *)
(* end read out of nothing, would end every stream at random).             *)
(***************************************************************************)
DelayCanWrite == /\ gw_counter + DelayBuffer - 1 < gr_counter
                 /\ gw_counter - taken < StreamDepth

DelayCanReadOverrun == dup1 > gr_counter

DelayCanRead  == /\ gw_counter + PoolSize - 2 > gr_counter
                 /\ dup1 > gr_counter

DelayIterate ==
  /\ delaying = "loop"
  /\ DelayCanWrite \/ DelayCanRead \/ (end_flag /\ gr_counter > Magic)
  /\ gw_counter' = IF DelayCanWrite THEN gw_counter + 1 ELSE gw_counter
  /\ gr_counter' = IF DelayCanRead THEN gr_counter + 1 ELSE gr_counter
  /\ end_flag' \in IF DelayCanRead THEN {gr_counter + 1 = EndToken} ELSE {end_flag, FALSE}
  /\ delaying' = IF end_flag' /\ gr_counter > Magic THEN "flush" ELSE "loop"

DelayFlush ==
  /\ delaying = "flush"
  /\ IF gw_counter < gr_counter
     THEN /\ gw_counter - taken < StreamDepth
          /\ gw_counter' = gw_counter + 1
          /\ UNCHANGED delaying
     ELSE /\ delaying' = "done"
          /\ UNCHANGED gw_counter
  /\ UNCHANGED <<gr_counter, end_flag>>

Delay ==
  /\ DelayIterate \/ DelayFlush
  /\ UNCHANGED <<input, endData, dupVars, mergeVars, cmdVars, cmdStream,
                 fetch, cacheStream, readVars>>
-----------------------------------------------------------------------------
(***************************************************************************)
(* streamMerge: pairs a block of edges with its delayed sources, and adds  *)
(* one block after the end token.                                          *)
(***************************************************************************)
MergeRead ==
  /\ taken = merged /\ taken < EndToken
  /\ gw_counter > taken
  /\ taken' = taken + 1
  /\ UNCHANGED merged

MergeWriteNoExtra ==
  /\ merged < taken
  /\ merged - blocks < StreamDepth
  /\ merged' = merged + 1
  /\ UNCHANGED taken

MergeWrite ==
  /\ merged < taken \/ (taken = EndToken /\ merged = EndToken)
  /\ merged - blocks < StreamDepth
  /\ merged' = merged + 1
  /\ UNCHANGED taken

Merge ==
  /\ MergeRead \/ MergeWrite
  /\ UNCHANGED <<input, endData, dupVars, delayVars, cmdVars, cmdStream,
                 fetch, cacheStream, readVars>>
-----------------------------------------------------------------------------
(***************************************************************************)
(* stream2Command: asks for the bursts a block needs beyond the last one   *)
(* asked for, and one burst more; after the end token it sends a command   *)
(* that only ends the stream, whose other fields are never set: they read  *)
(* as zero, or as the last command.                                        *)
(***************************************************************************)
Command(first, top) ==
  [idx |-> first, size |-> top + 2 - first, flag |-> FALSE]

Needed(b) ==
  LET low == Index(b.lo)
      top == Index(b.hi + Margin)
      first == IF low > last_index THEN low ELSE last_index + 1
  IN  IF low > last_index \/ top > last_index
      THEN <<Command(first, top)>> ELSE <<>>

EndCommands(cmds) ==
  {[idx |-> 0, size |-> 0, flag |-> TRUE]}
    \cup {[cmds[k] EXCEPT !.flag = TRUE] : k \in {Len(cmds)} \cap DOMAIN cmds}

MapRead ==
  /\ issuing = <<>>
  /\ mapped < dup2
  /\ mapped' = mapped + 1
  /\ LET cmds == Needed(Data(mapped + 1)) IN
       /\ last_index' = IF cmds = <<>> THEN last_index
                        ELSE Index(Data(mapped + 1).hi + Margin) + 1
       /\ IF mapped + 1 = EndToken
          THEN \E e \in EndCommands(cmds) : issuing' = Append(cmds, e)
          ELSE issuing' = cmds
  /\ UNCHANGED cmdStream

MapWrite ==
  /\ issuing # <<>>
  /\ Len(cmdStream) < CmdDepth
  /\ cmdStream' = Append(cmdStream, Head(issuing))
  /\ issuing' = Tail(issuing)
  /\ UNCHANGED <<mapped, last_index>>

Map ==
  /\ MapRead \/ MapWrite
  /\ UNCHANGED <<input, endData, dupVars, delayVars, mergeVars, fetch,
                 cacheStream, readVars>>
-----------------------------------------------------------------------------
(***************************************************************************)
(* updateVertexCache: reads the bursts of a command and sends their lines; *)
(* a command with its flag set is carried out too, and ends the stream.    *)
(***************************************************************************)
FetchCommand ==
  /\ fetch.at = fetch.stop /\ ~fetch.end
  /\ cmdStream # <<>>
  /\ LET c == Head(cmdStream) IN
       fetch' = [at |-> c.idx * Burst, stop |-> (c.idx + c.size) * Burst, end |-> c.flag]
  /\ cmdStream' = Tail(cmdStream)
  /\ UNCHANGED cacheStream

SendLine ==
  /\ fetch.at < fetch.stop
  /\ Len(cacheStream) < LineDepth
  /\ cacheStream' = Append(cacheStream, fetch.at)
  /\ fetch' = [fetch EXCEPT !.at = @ + LineSize]
  /\ UNCHANGED cmdStream

\* After the end line the process is done: no line is left to send.
Fetched == fetch.end /\ fetch.at > fetch.stop

SendEndLine ==
  /\ fetch.at = fetch.stop /\ fetch.end
  /\ Len(cacheStream) < LineDepth
  /\ cacheStream' = Append(cacheStream, EndLine)
  /\ fetch' = [fetch EXCEPT !.at = @ + 1]
  /\ UNCHANGED cmdStream

Fetch ==
  /\ FetchCommand \/ SendLine \/ SendEndLine
  /\ UNCHANGED <<input, endData, dupVars, delayVars, mergeVars, cmdVars, readVars>>
-----------------------------------------------------------------------------
(***************************************************************************)
(* readEdgesStage: an iteration takes a line if the window allows, putting *)
(* the line taken before it in the cache, then a block if the lines have   *)
(* passed the block taken before it, looking that one up.                  *)
(***************************************************************************)
Window ==
  cacheStream # <<>> /\ min_processing_value + CacheSize - Margin > caching_value

PassedEarly(caching) == processing_value <= caching

Passed(caching) == processing_value < caching \/ processing_value = ENDFLAG

TakeLine ==
  IF Window
  THEN /\ caching_value' = Head(cacheStream)
       /\ held' = Head(cacheStream)
       /\ cacheStream' = Tail(cacheStream)
       /\ vertexPropCache' = IF held = NoLine THEN vertexPropCache
                             ELSE [vertexPropCache EXCEPT ![Slot(held)] = held]
  ELSE UNCHANGED <<caching_value, held, cacheStream, vertexPropCache>>

CanTakeBlock(caching) == merged > blocks /\ Passed(caching)

TakeBlock ==
  IF CanTakeBlock(caching_value')
  THEN /\ processing_value' = Data(blocks + 1).hi
       /\ min_processing_value' = Data(blocks + 1).lo
       /\ blocks' = blocks + 1
       /\ break_flag' = (blocks = EndToken)
  ELSE UNCHANGED <<processing_value, min_processing_value, blocks, break_flag>>

Iterate ==
  /\ ~break_flag
  /\ Window \/ CanTakeBlock(caching_value)
  /\ TakeLine
  /\ TakeBlock
  /\ UNCHANGED <<input, endData, dupVars, delayVars, mergeVars, cmdVars,
                 cmdStream, fetch>>

(***************************************************************************)
(* empty_stream: after the end, what is still sent is thrown away (its     *)
(* count of idle cycles is taken to outlast the sender).                   *)
(***************************************************************************)
Drain ==
  /\ break_flag
  /\ cacheStream # <<>>
  /\ cacheStream' = Tail(cacheStream)
  /\ UNCHANGED <<input, endData, dupVars, delayVars, mergeVars, cmdVars,
                 cmdStream, fetch, readVars>>

Done == /\ dup2 = EndToken /\ delaying = "done" /\ merged = EndToken + 1
        /\ mapped = EndToken /\ issuing = <<>>
        /\ Fetched /\ break_flag /\ cacheStream = <<>>

Finished == Done /\ UNCHANGED vars

Next == Duplicate \/ Delay \/ Merge \/ Map \/ Fetch \/ Iterate \/ Drain \/ Finished

Spec == Init /\ [][Next]_vars

\* Every process runs in parallel hardware and acts whenever it can.
Fairness == /\ WF_vars(Duplicate) /\ WF_vars(Delay) /\ WF_vars(Merge)
            /\ WF_vars(Map) /\ WF_vars(Fetch) /\ WF_vars(Iterate) /\ WF_vars(Drain)

FairSpec == Spec /\ Fairness
-----------------------------------------------------------------------------
Counters == {dup1, dup2, gr_counter, gw_counter, taken, merged, mapped, blocks}
Lines == {x \in 0 .. ENDFLAG : x % LineSize = 0}

\* Types, and the bounds every stream and buffer keeps.
TypeOK ==
  /\ input \in Inputs
  /\ Counters \subseteq 0 .. EndToken + 1
  /\ blocks <= merged /\ merged - blocks <= StreamDepth
  /\ taken <= gw_counter /\ gw_counter - taken <= StreamDepth
  /\ gw_counter <= gr_counter /\ gr_counter - gw_counter < PoolSize
  /\ gr_counter <= dup1 /\ dup1 - gr_counter <= StreamDepth
  /\ mapped <= dup2 /\ dup2 - mapped <= StreamDepth
  /\ end_flag \in BOOLEAN /\ break_flag \in BOOLEAN
  /\ delaying \in {"loop", "flush", "done"}
  /\ last_index \in {NoIndex} \cup Nat
  /\ Len(cmdStream) <= CmdDepth /\ Len(issuing) <= 2
  /\ Len(cacheStream) <= LineDepth
  /\ held \in {NoLine, EndLine} \cup Lines
  /\ caching_value \in {EndLine} \cup Lines
  /\ processing_value \in Nat /\ min_processing_value \in Nat
  /\ vertexPropCache \in [0 .. (CacheSize \div LineSize - 1) -> {NoLine} \cup Lines]

\* The block looked up by the current step is block `blocks`.
Lookup == blocks' = blocks + 1 /\ blocks \in 1 .. Len(input)

\* A look-up of readEdgesStage finds the property of the very vertex asked
\* for, wherever between its first and last source it lies: its line was
\* requested, has arrived, and no later line has taken its slot.
FreshRead ==
  [][Lookup => \A v \in input[blocks].lo .. input[blocks].hi :
                  vertexPropCache'[Slot(v)] = Line(v)]_vars

\* Every sub-partition is processed to its end: streams of bounded depth, a
\* delay that holds tokens back and a window that holds lines back never wait
\* for each other in a circle.
Terminates == <>[]Done
=============================================================================
