-------------------------- MODULE SnapshotReader --------------------------
(***************************************************************************)
(* The lock-free reads of the two register blocks in power_model.c:        *)
(* td_stats_read_snapshot and pll_phase_diff_read_snapshot.                *)
(*                                                                         *)
(* The FPGA fills the inactive one of two banks with a window's results,   *)
(* then commits it with two register writes: the sequence number and the   *)
(* active-bank flag, in an order the reader does not know.  The reader     *)
(* reads both, then the bank, then both again, and starts over when either *)
(* changed.  The two readers differ in the order of the second reads and   *)
(* in the number of retries.                                               *)
(*                                                                         *)
(* The sequence number is a natural: 2^32 commits within one read do not   *)
(* happen at one window per commit.                                        *)
(***************************************************************************)
EXTENDS Integers

CONSTANTS
    Words,          \* TD_REG_WORDS or PLL_BANK_WORDS
    MaxRetries,     \* TD_SNAPSHOT_MAX_RETRIES or 16
    MaxWindows      \* bound on the windows the FPGA commits

ASSUME WordsAssumption == Words \in Nat \ {0} /\ MaxRetries \in Nat \ {0}
ASSUME WindowsAssumption == MaxWindows \in Nat

VARIABLES
    seqRereadFirst, \* which reader: TRUE for td_stats, FALSE for pll_phase_diff
    seqFirst,   \* does the FPGA raise seq before it flips the bank? fixed, unknown
    bank,       \* the registers: which window each word of each bank is of
    seq,        \* TD_OFF_SEQ_DATA, PLL_OFF_SEQ
    active,     \* TD_OFF_ACTIVE_BANK_DATA, PLL_OFF_ACTIVE_BANK
    filled,     \* words of the inactive bank the FPGA has written
    fpc,        \* "fill", or "commit" between its two commit writes
    rpc,        \* where the reader is
    retry,      \* how many attempts it has made
    seq1, bank1,   \* first reads
    reread,     \* which of the second reads are done: 0, 1 or 2
    got,        \* words of the bank read so far
    words,      \* out
    writes,     \* history: commit writes of the FPGA since the call began
    overtaken   \* history: commits that ended between the two second reads

fixed == <<seqRereadFirst, seqFirst>>
fpgaVars == <<fixed, bank, seq, active, filled, fpc>>
readerVars == <<rpc, retry, seq1, bank1, reread, got, words>>
vars == <<fpgaVars, readerVars, writes, overtaken>>

Word == 1..Words
Bank == {0, 1}

\* Window 0 is what the banks hold before the first commit.
Init ==
    /\ seqRereadFirst \in BOOLEAN /\ seqFirst \in BOOLEAN
    /\ bank = [b \in Bank |-> [w \in Word |-> 0]]
    /\ seq = 0 /\ active = 0 /\ filled = 0 /\ fpc = "fill"
    /\ rpc = "idle" /\ retry = 0 /\ seq1 = 0 /\ bank1 = 0
    /\ reread = 0 /\ got = 0 /\ words = [w \in Word |-> 0]
    /\ writes = 0 /\ overtaken = 0

-----------------------------------------------------------------------------
(* The FPGA.                                                               *)

\* The window being computed; its commit makes seq equal to it.
NextWindow == seq + 1

Fill ==
    /\ fpc = "fill" /\ filled < Words /\ seq < MaxWindows
    /\ bank' = [bank EXCEPT ![1 - active][filled + 1] = NextWindow]
    /\ filled' = filled + 1
    /\ UNCHANGED <<fixed, seq, active, fpc, readerVars, writes, overtaken>>

RaiseSeq == seq' = seq + 1 /\ UNCHANGED active
FlipBank == active' = 1 - active /\ UNCHANGED seq

Commit ==
    /\ fpc = "fill" /\ filled = Words
    /\ fpc' = "commit" /\ writes' = writes + 1
    /\ IF seqFirst THEN RaiseSeq ELSE FlipBank
    /\ UNCHANGED <<fixed, bank, filled, readerVars, overtaken>>

FinishCommit ==
    /\ fpc = "commit"
    /\ fpc' = "fill" /\ filled' = 0 /\ writes' = writes + 1
    /\ IF seqFirst THEN FlipBank ELSE RaiseSeq
    /\ overtaken' = IF rpc = "reread" /\ reread = 1 THEN overtaken + 1 ELSE overtaken
    /\ UNCHANGED <<fixed, bank, readerVars>>

Fpga == Fill \/ Commit \/ FinishCommit

-----------------------------------------------------------------------------
(* The reader; every register read is a step.                              *)

Goto(from, to) == rpc = from /\ rpc' = to

Call ==
    /\ rpc \in {"idle", "accepted", "failed"} /\ rpc' = "seq"
    /\ retry' = 0 /\ writes' = 0
    /\ UNCHANGED <<fpgaVars, seq1, bank1, reread, got, words, overtaken>>

ReadSeq ==
    /\ Goto("seq", "bank") /\ seq1' = seq
    /\ UNCHANGED <<fpgaVars, retry, bank1, reread, got, words, writes, overtaken>>

ReadBank ==
    /\ Goto("bank", "words") /\ bank1' = active /\ got' = 0
    /\ UNCHANGED <<fpgaVars, retry, seq1, reread, words, writes, overtaken>>

ReadWord ==
    /\ rpc = "words" /\ got < Words
    /\ words' = [words EXCEPT ![got + 1] = bank[bank1][got + 1]]
    /\ got' = got + 1
    /\ UNCHANGED <<fpgaVars, rpc, retry, seq1, bank1, reread, writes, overtaken>>

WordsDone ==
    /\ Goto("words", "reread") /\ got = Words
    /\ reread' = 0 /\ overtaken' = 0
    /\ UNCHANGED <<fpgaVars, retry, seq1, bank1, got, words, writes>>

\* The second reads, one register each.
\* Fault: the register is not compared.
NotCompared == TRUE
SeqUnchanged == seq = seq1
BankUnchanged == active = bank1

RereadSeq ==
    /\ rpc = "reread" /\ reread = (IF seqRereadFirst THEN 0 ELSE 1)
    /\ rpc' = IF SeqUnchanged THEN "reread" ELSE "changed"
    /\ reread' = reread + 1
    /\ UNCHANGED <<fpgaVars, retry, seq1, bank1, got, words, writes, overtaken>>

RereadBank ==
    /\ rpc = "reread" /\ reread = (IF seqRereadFirst THEN 1 ELSE 0)
    /\ rpc' = IF BankUnchanged THEN "reread" ELSE "changed"
    /\ reread' = reread + 1
    /\ UNCHANGED <<fpgaVars, retry, seq1, bank1, got, words, writes, overtaken>>

Accept ==
    /\ Goto("reread", "accepted") /\ reread = 2
    /\ UNCHANGED <<fpgaVars, retry, seq1, bank1, reread, got, words, writes, overtaken>>

AttemptsLeft == retry + 1 < MaxRetries

\* Fault: the next attempt keeps the sequence number of the first.
KeepsSeq == "bank"
NextAttempt == "seq"

\* A change sends the reader back, until the retries are used up.
Retry ==
    /\ Goto("changed", IF AttemptsLeft THEN NextAttempt ELSE "failed")
    /\ retry' = retry + 1
    /\ UNCHANGED <<fpgaVars, seq1, bank1, reread, got, words, writes, overtaken>>

Reader ==
    \/ ReadSeq \/ ReadBank \/ ReadWord \/ WordsDone
    \/ RereadSeq \/ RereadBank \/ Accept \/ Retry

Next == Fpga \/ Call \/ Reader

Spec == Init /\ [][Next]_vars

-----------------------------------------------------------------------------
(* Properties.                                                             *)

TypeOK ==
    /\ seqRereadFirst \in BOOLEAN /\ seqFirst \in BOOLEAN
    /\ bank \in [Bank -> [Word -> Nat]] /\ seq \in Nat /\ active \in Bank
    /\ filled \in 0..Words /\ fpc \in {"fill", "commit"}
    /\ rpc \in {"idle", "seq", "bank", "words", "reread", "changed", "accepted",
               "failed"}
    /\ retry \in 0..MaxRetries /\ seq1 \in Nat /\ bank1 \in Bank
    /\ reread \in 0..2 /\ got \in 0..Words
    /\ words \in [Word -> Nat] /\ writes \in Nat /\ overtaken \in Nat

\* A snapshot that is returned is of one window, whichever order the FPGA commits
\* in.  The td_stats reader, which rereads the sequence number first, needs in
\* one of the orders that no commit ends between its last two register reads.
SnapshotWhole ==
    rpc = "accepted" => \/ \A v, w \in Word : words[v] = words[w]
                        \/ seqRereadFirst /\ seqFirst /\ overtaken > 0

\* The sequence number returned with it is at most one off the window's number.
LabelWithinOne ==
    rpc = "accepted" => \/ words[1] \in {seq1 - 1, seq1, seq1 + 1}
                        \/ seqRereadFirst /\ seqFirst /\ overtaken > 0

\* A snapshot fails only if the FPGA made a commit write in each attempt: at two
\* writes per window, half as many windows as there are retries.
FailureNeedsCommits == rpc = "failed" => writes >= MaxRetries

-----------------------------------------------------------------------------
(* The inductive invariant.                                                *)

\* What the banks hold: the active one a whole window, the other one the window
\* in the making, or the whole one that a commit under way brings in or out.
BankInv ==
    /\ fpc = "commit" => filled = Words
    /\ fpc = "commit" /\ seqFirst =>
          \A w \in Word : bank[active][w] = seq - 1 /\ bank[1 - active][w] = seq
    /\ fpc = "commit" /\ ~seqFirst =>
          \A w \in Word : bank[active][w] = seq + 1 /\ bank[1 - active][w] = seq
    /\ fpc = "fill" => \A w \in Word :
          /\ bank[active][w] = seq
          /\ w <= filled => bank[1 - active][w] = seq + 1

Whole == \A w \in Word : words[w] = words[1] /\ words[w] \in {seq1 - 1, seq1, seq1 + 1}

\* While the sequence number is still the one read first, the words read so far
\* are those the bank holds now, unless a flip has given the bank to the FPGA.
ReadInv ==
    /\ rpc \in {"bank", "words", "reread"} => seq1 <= seq
    /\ rpc \in {"words", "reread"} /\ seq = seq1 =>
          /\ seqFirst /\ fpc = "commit" => bank1 = active
          /\ ~seqFirst /\ fpc = "fill" => bank1 = active
          /\ bank1 = active \/ ~seqFirst =>
                \A w \in Word : w <= got => words[w] = bank[bank1][w]

\* What each of the second reads has established.
RereadInv ==
    /\ rpc = "reread" => got = Words
    /\ rpc = "reread" /\ reread = 1 /\ seqRereadFirst =>
          Whole \/ (seqFirst /\ (overtaken > 0 \/ bank1 # active))
    /\ rpc = "reread" /\ reread = 1 /\ ~seqRereadFirst /\ seq = seq1 => Whole
    /\ (rpc = "reread" /\ reread = 2) \/ rpc = "accepted" =>
          Whole \/ (seqRereadFirst /\ seqFirst /\ overtaken > 0)

\* Every attempt so far has seen a commit write of its own; the current one has
\* seen none as long as the counts are equal.
RetryInv ==
    /\ rpc \in {"seq", "bank", "words", "reread"} => retry <= writes /\ retry < MaxRetries
    /\ rpc \in {"bank", "words", "reread"} /\ writes = retry =>
          /\ seq = seq1
          /\ rpc \in {"words", "reread"} => active = bank1
    /\ rpc = "changed" => retry < writes /\ retry < MaxRetries
    /\ rpc = "failed" => retry = MaxRetries /\ retry <= writes

IInv == TypeOK /\ BankInv /\ ReadInv /\ RereadInv /\ RetryInv
=============================================================================
