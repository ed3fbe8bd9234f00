----------------------- MODULE SnapshotReaderProofs -----------------------
(***************************************************************************)
(* Proofs about SnapshotReader, for any bank size, any number of retries,  *)
(* either order of the rereads and either commit order of the FPGA.        *)
(***************************************************************************)
EXTENDS SnapshotReader, TLAPS

LEMMA InitInv == Init => IInv
BY WordsAssumption
DEF Init, IInv, TypeOK, BankInv, ReadInv, RereadInv, RetryInv, Word, Bank, Whole

LEMMA TypeStep == ASSUME TypeOK, RetryInv, [Next]_vars PROVE TypeOK'
<1> USE WordsAssumption DEF TypeOK, Word, Bank, Goto, fixed, fpgaVars, readerVars
<1>1. CASE Fill
  <2>1. bank' \in [Bank -> [Word -> Nat]]
    BY <1>1 DEF Fill, NextWindow
  <2>2. filled' \in 0..Words
    BY <1>1 DEF Fill
  <2>3. UNCHANGED <<seqRereadFirst, seqFirst, seq, active, fpc, rpc, retry, seq1, bank1,
                    reread, got, words, writes, overtaken>>
    BY <1>1 DEF Fill
  <2> QED
    BY <2>1, <2>2, <2>3
<1>2. CASE Commit \/ FinishCommit
  <2>1. RaiseSeq \/ FlipBank => seq' \in Nat /\ active' \in Bank
    BY DEF RaiseSeq, FlipBank
  <2>2. RaiseSeq \/ FlipBank
    BY <1>2 DEF Commit, FinishCommit
  <2>3. writes' \in Nat /\ filled' \in 0..Words
    BY <1>2 DEF Commit, FinishCommit
  <2>4. overtaken' \in Nat /\ fpc' \in {"fill", "commit"}
    BY <1>2 DEF Commit, FinishCommit
  <2>5. UNCHANGED <<seqRereadFirst, seqFirst, bank, rpc, retry, seq1, bank1, reread, got, words>>
    BY <1>2 DEF Commit, FinishCommit
  <2> QED
    BY <2>1, <2>2, <2>3, <2>4, <2>5
<1>3. CASE Call BY <1>3 DEF Call
<1>4. CASE ReadSeq BY <1>4 DEF ReadSeq
<1>5. CASE ReadBank BY <1>5 DEF ReadBank
<1>6. CASE ReadWord BY <1>6 DEF ReadWord
<1>7. CASE WordsDone BY <1>7 DEF WordsDone
<1>8. CASE RereadSeq \/ RereadBank
  <2>1. rpc' \in {"reread", "changed"}
    BY <1>8 DEF RereadSeq, RereadBank
  <2>2. reread \in {0, 1} /\ reread' = reread + 1
    BY <1>8 DEF RereadSeq, RereadBank
  <2>3. UNCHANGED <<fpgaVars, retry, seq1, bank1, got, words, writes, overtaken>>
    BY <1>8 DEF RereadSeq, RereadBank
  <2> QED
    BY <2>1, <2>2, <2>3
<1>9. CASE Accept BY <1>9 DEF Accept
<1>10. CASE Retry BY <1>10 DEF Retry, RetryInv, AttemptsLeft, NextAttempt
<1>11. CASE UNCHANGED vars BY <1>11 DEF vars
<1> QED
  BY <1>1, <1>2, <1>3, <1>4, <1>5, <1>6, <1>7, <1>8, <1>9, <1>10, <1>11
  DEF Next, Fpga, Reader

-----------------------------------------------------------------------------
(* The FPGA's steps.                                                       *)

\* Filling touches the inactive bank only.
LEMMA FillInv == ASSUME IInv, Fill PROVE IInv'
<1> USE WordsAssumption DEF Fill, fixed, readerVars, Word, Bank, NextWindow
<1>1. TypeOK' BY TypeStep DEF IInv, Next, Fpga
<1>2. \A w \in Word :
          /\ bank'[active][w] = bank[active][w]
          /\ w # filled + 1 => bank'[1 - active][w] = bank[1 - active][w]
          /\ w = filled + 1 => bank'[1 - active][w] = seq + 1
  BY DEF IInv, TypeOK
<1>7. /\ fpc = "fill" /\ filled < Words /\ filled' = filled + 1
      /\ UNCHANGED <<seqFirst, seq, active, fpc, rpc, seq1, bank1, got, words>>
  OBVIOUS
<1>3. BankInv'
  <2>1. \A w \in Word : /\ bank[active][w] = seq
                        /\ w <= filled => bank[1 - active][w] = seq + 1
    BY <1>7 DEF IInv, BankInv
  <2>2. filled \in Nat /\ \A w \in Word : w <= filled' => w <= filled \/ w = filled + 1
    BY <1>7 DEF IInv, TypeOK
  <2>3. \A w \in Word : /\ bank'[active][w] = seq
                        /\ w <= filled' => bank'[1 - active][w] = seq + 1
    <3> HIDE DEF Fill
    <3> QED
      BY <1>2, <1>7, <2>1, <2>2
  <2> HIDE DEF Fill
  <2> QED
    BY <1>7, <2>3 DEF BankInv
<1>4. ReadInv'
  <2> HIDE DEF Fill
  <2> QED
    BY <1>2, <1>7 DEF IInv, TypeOK, ReadInv
<1>5. RereadInv' BY DEF IInv, TypeOK, RereadInv, Whole
<1>6. RetryInv' BY DEF IInv, RetryInv
<1> QED BY <1>1, <1>3, <1>4, <1>5, <1>6 DEF IInv

LEMMA CommitInv == ASSUME IInv, Commit PROVE IInv'
<1> USE WordsAssumption DEF Commit, fixed, readerVars, Word, Bank, RaiseSeq, FlipBank
<1>1. TypeOK' BY TypeStep DEF IInv, Next, Fpga
<1>2. BankInv'
  <2>1. CASE seqFirst BY <2>1 DEF IInv, TypeOK, BankInv
  <2>2. CASE ~seqFirst BY <2>2 DEF IInv, TypeOK, BankInv
  <2> QED BY <2>1, <2>2
<1>3. ReadInv'
  <2>1. CASE seqFirst BY <2>1 DEF IInv, TypeOK, ReadInv
  <2>2. CASE ~seqFirst BY <2>2 DEF IInv, TypeOK, ReadInv
  <2> QED BY <2>1, <2>2
<1>4. RereadInv' BY DEF IInv, TypeOK, ReadInv, RereadInv, Whole
<1>5. RetryInv' BY DEF IInv, TypeOK, RetryInv
<1> QED BY <1>1, <1>2, <1>3, <1>4, <1>5 DEF IInv

LEMMA FinishCommitInv == ASSUME IInv, FinishCommit PROVE IInv'
<1> USE WordsAssumption DEF FinishCommit, fixed, readerVars, Word, Bank, RaiseSeq, FlipBank
<1>1. TypeOK' BY TypeStep DEF IInv, Next, Fpga
<1>2. BankInv'
  <2>1. CASE seqFirst BY <2>1 DEF IInv, TypeOK, BankInv
  <2>2. CASE ~seqFirst BY <2>2 DEF IInv, TypeOK, BankInv
  <2> QED BY <2>1, <2>2
<1>3. ReadInv' BY DEF IInv, TypeOK, ReadInv
<1>4. RereadInv' BY DEF IInv, TypeOK, ReadInv, RereadInv, Whole
<1>5. RetryInv' BY DEF IInv, TypeOK, RetryInv
<1> QED BY <1>1, <1>2, <1>3, <1>4, <1>5 DEF IInv

-----------------------------------------------------------------------------
(* The reader's steps.                                                     *)

LEMMA ReadStepsInv ==
    ASSUME IInv, Call \/ ReadSeq \/ ReadBank \/ ReadWord \/ WordsDone
    PROVE  IInv'
<1> USE WordsAssumption DEF Goto, fixed, fpgaVars, Word, Bank
<1>1. TypeOK' BY TypeStep DEF IInv, Next, Reader
<1>2. BankInv'
  BY DEF IInv, BankInv, Call, ReadSeq, ReadBank, ReadWord, WordsDone
<1>3. ReadInv'
  <2>1. CASE Call BY <2>1 DEF Call, IInv, ReadInv
  <2>2. CASE ReadSeq BY <2>2 DEF ReadSeq, IInv, TypeOK, ReadInv
  <2>3. CASE ReadBank BY <2>3 DEF ReadBank, IInv, TypeOK, ReadInv
  <2>4. CASE ReadWord BY <2>4 DEF ReadWord, IInv, TypeOK, ReadInv
  <2>5. CASE WordsDone BY <2>5 DEF WordsDone, IInv, ReadInv
  <2> QED BY <2>1, <2>2, <2>3, <2>4, <2>5
<1>4. RereadInv'
  BY DEF IInv, RereadInv, Call, ReadSeq, ReadBank, ReadWord, WordsDone
<1>5. RetryInv'
  <2>1. CASE Call BY <2>1 DEF Call, IInv, RetryInv
  <2>2. CASE ReadSeq BY <2>2 DEF ReadSeq, IInv, RetryInv
  <2>3. CASE ReadBank BY <2>3 DEF ReadBank, IInv, RetryInv
  <2>4. CASE ReadWord BY <2>4 DEF ReadWord, IInv, RetryInv
  <2>5. CASE WordsDone BY <2>5 DEF WordsDone, IInv, RetryInv
  <2> QED BY <2>1, <2>2, <2>3, <2>4, <2>5
<1> QED BY <1>1, <1>2, <1>3, <1>4, <1>5 DEF IInv

\* With both registers as they were first read the words are a whole window.
LEMMA MatchIsWhole ==
    ASSUME IInv, rpc = "reread", seq = seq1, bank1 = active \/ ~seqFirst
    PROVE  Whole
<1>1. \A w \in Word : words[w] = bank[bank1][w]
  BY DEF IInv, TypeOK, ReadInv, RereadInv, Word
<1>2. \E x \in {seq - 1, seq, seq + 1} : \A w \in Word : bank[bank1][w] = x
  BY DEF IInv, TypeOK, BankInv, ReadInv, Bank
<1>3. 1 \in Word
  BY WordsAssumption DEF Word
<1> QED
  BY <1>1, <1>2, <1>3 DEF Whole

LEMMA RereadStepInv == ASSUME IInv, RereadSeq \/ RereadBank PROVE IInv'
<1> USE DEF fixed, fpgaVars, Word
<1>1. TypeOK' BY TypeStep DEF IInv, Next, Reader
<1>2. BankInv' /\ ReadInv' BY DEF IInv, BankInv, ReadInv, RereadSeq, RereadBank
<1>3. RereadInv'
  <2>1. Whole' = Whole
    BY DEF Whole, RereadSeq, RereadBank
  <2>2. CASE RereadSeq
    BY <2>1, <2>2, MatchIsWhole
    DEF RereadSeq, SeqUnchanged, IInv, TypeOK, RereadInv
  <2>3. CASE RereadBank
    BY <2>1, <2>3, MatchIsWhole
    DEF RereadBank, BankUnchanged, IInv, TypeOK, RereadInv
  <2> QED
    BY <2>2, <2>3
<1>4. RetryInv'
  BY DEF IInv, TypeOK, RetryInv, SeqUnchanged, BankUnchanged, RereadSeq, RereadBank
<1> QED BY <1>1, <1>2, <1>3, <1>4 DEF IInv

LEMMA DecideInv == ASSUME IInv, Accept \/ Retry PROVE IInv'
<1> USE WordsAssumption DEF Goto, fixed, fpgaVars, Word
<1>1. TypeOK' BY TypeStep DEF IInv, Next, Reader
<1>2. BankInv' /\ ReadInv'
  BY DEF IInv, BankInv, ReadInv, Accept, Retry, AttemptsLeft, NextAttempt
<1>3. RereadInv'
  BY DEF IInv, RereadInv, Whole, Accept, Retry, AttemptsLeft, NextAttempt
<1>4. RetryInv'
  <2>1. CASE Accept
    BY <2>1 DEF Accept, IInv, RetryInv
  <2>2. CASE Retry
    <3>1. retry \in Nat /\ writes \in Nat /\ MaxRetries \in Nat
      BY DEF IInv, TypeOK
    <3>2. retry < writes /\ retry < MaxRetries
      BY <2>2 DEF Retry, IInv, RetryInv
    <3>3. CASE AttemptsLeft
      BY <2>2, <3>1, <3>2, <3>3 DEF Retry, AttemptsLeft, NextAttempt, RetryInv
    <3>4. CASE ~AttemptsLeft
      BY <2>2, <3>1, <3>2, <3>4 DEF Retry, AttemptsLeft, RetryInv
    <3> QED
      BY <3>3, <3>4
  <2> QED
    BY <2>1, <2>2
<1> QED BY <1>1, <1>2, <1>3, <1>4 DEF IInv

-----------------------------------------------------------------------------
(* The theorems.                                                           *)

\* Banks, words read and writes seen at every step of FPGA and reader.
THEOREM Inductive == Spec => []IInv
<1>1. IInv /\ [Next]_vars => IInv'
  <2>1. ASSUME IInv, UNCHANGED vars PROVE IInv'
    BY <2>1 DEF IInv, TypeOK, BankInv, ReadInv, RereadInv, RetryInv, Whole, vars,
                fixed, fpgaVars, readerVars
  <2> QED
    BY <2>1, FillInv, CommitInv, FinishCommitInv, ReadStepsInv, RereadStepInv, DecideInv
    DEF Next, Fpga, Reader
<1> QED
  BY InitInv, <1>1, PTL DEF Spec

\* A snapshot that is returned is of one window, for the pll_phase_diff reader
\* always, for the td_stats reader unless a commit ends between its last two
\* reads and the FPGA raises the sequence number before it flips the bank.
THEOREM SnapshotIsWhole == Spec => []SnapshotWhole
<1>1. IInv => SnapshotWhole
  BY DEF IInv, RereadInv, SnapshotWhole, Whole
<1> QED
  BY <1>1, Inductive, PTL

\* Its label is off by at most one.
THEOREM LabelIsClose == Spec => []LabelWithinOne
<1>1. IInv => LabelWithinOne
  BY WordsAssumption DEF IInv, RereadInv, LabelWithinOne, Whole, Word
<1> QED
  BY <1>1, Inductive, PTL

\* A read fails only when every attempt met a commit write.
THEOREM FailureIsEarned == Spec => []FailureNeedsCommits
<1>1. IInv => FailureNeedsCommits
  BY DEF IInv, RetryInv, FailureNeedsCommits
<1> QED
  BY <1>1, Inductive, PTL
=============================================================================
