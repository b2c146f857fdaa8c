-------------------------- MODULE DownloaderProofs --------------------------
(***************************************************************************)
(* Theorems about Downloader, for every set of responses, those too long   *)
(* for a DWORD included, every way to cut them into chunks, every number   *)
(* of rounds and every combination of failures, use of a context that was  *)
(* cleaned up included.                                                    *)
(***************************************************************************)
EXTENDS Downloader, TLAPS

-----------------------------------------------------------------------------
(* The inductive invariant *)

\* Places inside a call of DownloadFile: before the answer is judged, and all.
Trying == {"setopt", "perform", "transfer", "getinfo", "open", "write"}
Calling == Trying \cup {"release", "separate"}

\* No error has been recorded before the label memoryrelease is reached.
NoErrorYet == pc \in Trying => nReturnCode = 0

\* A call belongs to a round that main has not counted yet.
InRound == pc \in Calling => round < Rounds

\* The buffer is empty until the transfer begins.
StartsEmpty == pc \in {"setopt", "perform"} => body = <<>>

\* Past curl_easy_perform the buffer holds the whole answer; and the file is opened
\* for code 200 only.
AnswerIsWhole ==
    /\ pc \in {"getinfo", "open", "write"} => body = response
    /\ pc \in {"open", "write"} => status = "200"

\* The handle is open between CreateFileA and CloseHandle only.
HandleIsHeld == hFile = "open" => pc \in {"write", "release", "crashed"}

\* While the buffer may still be allocated by realloc, a null pointer means that this
\* call has no block yet.
BlocksAreCounted ==
    /\ blocks \in Nat
    /\ blocks <= round + 1
    /\ pc \in {"init", "main"} => blocks <= round
    /\ pc \in {"setopt", "perform", "transfer"} /\ memory = "NULL" => blocks <= round

IInv ==
    /\ TypeOK
    /\ NoErrorYet
    /\ InRound
    /\ StartsEmpty
    /\ AnswerIsWhole
    /\ HandleIsHeld
    /\ BlocksAreCounted

-----------------------------------------------------------------------------
(* Prefixes of the answer *)

\* What the buffer holds is the beginning of the answer, chunk by chunk.
LEMMA PrefixIsPointwise ==
    ASSUME NEW S, NEW r \in Seq(S), NEW b \in Seq(S)
    PROVE  IsPrefix(b, r) <=> Len(b) <= Len(r) /\ \A k \in 1..Len(b) : b[k] = r[k]
<1>1. ASSUME Len(b) <= Len(r)
      PROVE  /\ SubSeq(b, 1, Len(b)) = b
             /\ SubSeq(r, 1, Len(b)) \in Seq(S)
             /\ Len(SubSeq(r, 1, Len(b))) = Len(b)
             /\ \A k \in 1..Len(b) : SubSeq(r, 1, Len(b))[k] = r[k]
  BY <1>1
<1>2. ASSUME NEW t \in Seq(S), Len(t) = Len(b)
      PROVE  b = t <=> \A k \in 1..Len(b) : b[k] = t[k]
  BY <1>2
<1> QED
  BY <1>1, <1>2 DEF IsPrefix

\* The next chunk makes a longer beginning of the answer.
LEMMA PrefixGrows ==
    ASSUME NEW r, r \in Seq(Range(r)), NEW b \in Seq(Range(r)), IsPrefix(b, r),
           NEW n \in Len(b) + 1 .. Len(r)
    PROVE  /\ b \o SubSeq(r, Len(b) + 1, n) \in Seq(Range(r))
           /\ IsPrefix(b \o SubSeq(r, Len(b) + 1, n), r)
<1> DEFINE c == SubSeq(r, Len(b) + 1, n)
<1>1. Len(b) \in Nat /\ Len(r) \in Nat /\ n \in Nat /\ Len(b) < n /\ n <= Len(r)
  OBVIOUS
<1>2. /\ c \in Seq(Range(r)) /\ Len(c) = n - Len(b)
      /\ \A k \in 1..(n - Len(b)) : c[k] = r[Len(b) + k]
  BY <1>1
<1> HIDE DEF c
<1>3. b \o c \in Seq(Range(r)) /\ Len(b \o c) = n
  BY <1>1, <1>2
<1>4. ASSUME NEW k \in 1..n PROVE (b \o c)[k] = r[k]
  <2>1. CASE k <= Len(b)
    <3>1. b[k] = r[k]
      BY <1>1, <2>1, PrefixIsPointwise
    <3> QED
      BY <1>1, <1>2, <2>1, <3>1
  <2>2. CASE ~(k <= Len(b))
    <3>1. k - Len(b) \in 1..(n - Len(b)) /\ Len(b) + (k - Len(b)) = k
      BY <1>1, <2>2
    <3>2. (b \o c)[k] = c[k - Len(b)]
      BY <1>1, <1>2, <2>2
    <3> QED
      BY <1>2, <3>1, <3>2
  <2> QED
    BY <2>1, <2>2
<1>5. IsPrefix(b \o c, r)
  BY <1>1, <1>3, <1>4, PrefixIsPointwise
<1> QED
  BY <1>3, <1>5 DEF c

\* A beginning that is as long as the answer is the answer.
LEMMA FullPrefix ==
    ASSUME NEW r, r \in Seq(Range(r)), NEW b \in Seq(Range(r)),
           IsPrefix(b, r), Len(b) = Len(r)
    PROVE  b = r
<1>1. \A k \in 1..Len(b) : b[k] = r[k]
  BY PrefixIsPointwise
<1> QED
  BY <1>1

\* The empty buffer is a beginning of every answer.
LEMMA EmptyPrefix ==
    ASSUME NEW r, r \in Seq(Range(r))
    PROVE  <<>> \in Seq(Range(r)) /\ IsPrefix(<<>>, r)
<1>1. \A S : <<>> \in Seq(S) /\ Len(<<>>) = 0
  OBVIOUS
<1>2. ASSUME NEW e \in Seq(Range(r)), e = <<>>
      PROVE  IsPrefix(e, r)
  <2>1. Len(e) = 0 /\ Len(r) \in Nat
    BY <1>2
  <2>2. Len(e) <= Len(r) /\ \A k \in 1..Len(e) : e[k] = r[k]
    BY <2>1
  <2>3. IsPrefix(e, r) <=> Len(e) <= Len(r) /\ \A k \in 1..Len(e) : e[k] = r[k]
    BY PrefixIsPointwise
  <2> QED
    BY <2>2, <2>3
<1> QED
  BY <1>1, <1>2

\* Every answer is a sequence of its chunks.
LEMMA AnswersAreSequences ==
    ASSUME NEW r \in Responses \cup {<<>>}
    PROVE  r \in Seq(Range(r))
<1>1. \A S : <<>> \in Seq(S)
  OBVIOUS
<1> QED
  BY <1>1, ResponsesAssumption

-----------------------------------------------------------------------------
(* The invariant *)

LEMMA InitIInv == Init => IInv
<1> SUFFICES ASSUME Init PROVE IInv
  OBVIOUS
<1>1. body \in Seq(Range(response)) /\ IsPrefix(body, response)
  BY AnswersAreSequences, EmptyPrefix DEF Init
<1> QED
  BY <1>1, RoundsAssumption
  DEF Init, IInv, TypeOK, NoErrorYet, InRound, StartsEmpty, AnswerIsWhole, HandleIsHeld,
      BlocksAreCounted, Trying, Calling

\* The types of the buffer and the answer, at every step.
LEMMA BufferStep ==
    ASSUME IInv, [Next]_vars
    PROVE  /\ response' \in Responses \cup {<<>>}
           /\ body' \in Seq(Range(response'))
           /\ IsPrefix(body', response')
<1> USE DEF IInv, TypeOK
<1>1. CASE UNCHANGED <<response, body>>
  BY <1>1
<1>2. CASE CallDownloadFile
  <2>1. body' = <<>> /\ response' = response
    BY <1>2 DEF CallDownloadFile
  <2> QED
    BY <2>1, AnswersAreSequences, EmptyPrefix
<1>3. CASE Perform
  <2>1. body' = <<>> /\ response' \in Responses
    BY <1>3 DEF Perform, StartsEmpty
  <2> QED
    BY <2>1, AnswersAreSequences, EmptyPrefix
<1>4. CASE WriteMemoryCallback
  <2>1. PICK n \in Len(body) + 1 .. Len(response) :
                body' = body \o SubSeq(response, Len(body) + 1, n)
    BY <1>4 DEF WriteMemoryCallback
  <2>2. response' = response
    BY <1>4 DEF WriteMemoryCallback
  <2> QED
    BY <2>1, <2>2, AnswersAreSequences, PrefixGrows
<1> QED
  BY <1>1, <1>2, <1>3, <1>4
  DEF Next, Local, Transfer, vars, callVars, CurlInit, SetOptions, SetOptionFails, GetInfo,
      GetInfoFails, OpenFile, OpenFileFails, WriteFile, WriteFileFails, Release,
      AppendSeparator, Finalize, CallbackOutOfMemory, TransferBreaks, TransferEnds, Crash,
      Stopped, Fail

\* The rest of the types, and the places of a call.
LEMMA ControlStep ==
    ASSUME IInv, [Next]_vars
    PROVE  (TypeOK /\ NoErrorYet /\ InRound /\ StartsEmpty /\ HandleIsHeld)'
<1> USE RoundsAssumption
    DEF IInv, TypeOK, NoErrorYet, InRound, StartsEmpty, HandleIsHeld, BlocksAreCounted,
        Trying, Calling, callVars, heapVars
<1>0. /\ response' \in Responses \cup {<<>>}
      /\ body' \in Seq(Range(response')) /\ IsPrefix(body', response')
  BY BufferStep
<1>1. CASE Local
  <2>1. CASE CurlInit
    BY <1>0, <2>1 DEF CurlInit
  <2>2. CASE CallDownloadFile
    BY <1>0, <2>2 DEF CallDownloadFile, Malloc
  <2>3. CASE SetOptions \/ SetOptionFails
    BY <1>0, <2>3 DEF SetOptions, SetOptionFails, Fail
  <2>4. CASE Perform
    BY <1>0, <2>4 DEF Perform
  <2>5. CASE GetInfo \/ GetInfoFails
    BY <1>0, <2>5 DEF GetInfo, GetInfoFails, Fail
  <2>6. CASE OpenFile \/ OpenFileFails
    BY <1>0, <2>6 DEF OpenFile, OpenFileFails
  <2>7. CASE WriteFile \/ WriteFileFails
    BY <1>0, <2>7 DEF WriteFile, WriteFileFails
  <2>8. CASE Release
    BY <1>0, <2>8 DEF Release
  <2>9. CASE AppendSeparator
    BY <1>0, <2>9 DEF AppendSeparator
  <2>10. CASE Finalize
    BY <1>0, <2>10 DEF Finalize
  <2> QED
    BY <1>1, <2>1, <2>2, <2>3, <2>4, <2>5, <2>6, <2>7, <2>8, <2>9, <2>10 DEF Local
<1>2. CASE Transfer
  <2>1. CASE WriteMemoryCallback
    BY <1>0, <2>1 DEF WriteMemoryCallback, Realloc
  <2>2. CASE CallbackOutOfMemory \/ TransferBreaks
    BY <1>0, <2>2 DEF CallbackOutOfMemory, TransferBreaks, Fail
  <2>3. CASE TransferEnds
    BY <1>0, <2>3 DEF TransferEnds
  <2> QED
    BY <1>2, <2>1, <2>2, <2>3 DEF Transfer
<1>3. CASE Crash
  BY <1>0, <1>3 DEF Crash
<1>4. CASE Stopped \/ UNCHANGED vars
  BY <1>0, <1>4 DEF Stopped, vars
<1> QED
  BY <1>1, <1>2, <1>3, <1>4 DEF Next

\* The answer is whole when curl_easy_perform returns, and stays so.
LEMMA AnswerStep ==
    ASSUME IInv, [Next]_vars
    PROVE  AnswerIsWhole'
<1> USE DEF IInv, AnswerIsWhole, callVars
<1>1. CASE TransferEnds
  <2>1. body = response
    BY <1>1, AnswersAreSequences, FullPrefix DEF TransferEnds, TypeOK
  <2> QED
    BY <1>1, <2>1 DEF TransferEnds
<1>2. CASE GetInfo \/ OpenFile
  BY <1>2 DEF GetInfo, OpenFile
<1>3. CASE UNCHANGED vars
  BY <1>3 DEF vars
<1>4. CASE pc' \notin {"getinfo", "open", "write"}
  BY <1>4
<1> QED
  BY <1>1, <1>2, <1>3, <1>4
  DEF Next, Local, Transfer, CurlInit, CallDownloadFile, SetOptions, SetOptionFails, Perform,
      GetInfoFails, OpenFileFails, WriteFile, WriteFileFails, Release, AppendSeparator,
      Finalize, WriteMemoryCallback, CallbackOutOfMemory, TransferBreaks, Crash, Stopped, Fail

\* Blocks are allocated by malloc, and by realloc when malloc has failed.
LEMMA BlocksStep ==
    ASSUME IInv, [Next]_vars
    PROVE  BlocksAreCounted'
<1> USE DEF IInv, BlocksAreCounted, TypeOK, callVars, heapVars
<1>1. CASE CallDownloadFile
  BY <1>1 DEF CallDownloadFile, Malloc
<1>2. CASE WriteMemoryCallback
  BY <1>2 DEF WriteMemoryCallback, Realloc
<1>3. CASE CallbackOutOfMemory
  BY <1>3 DEF CallbackOutOfMemory, Fail
<1>4. CASE AppendSeparator
  BY <1>4 DEF AppendSeparator
<1>5. CASE /\ UNCHANGED <<round, heapVars>>
           /\ pc' \in {"init", "main"} => pc \in {"init", "main"}
           /\ pc' \in {"setopt", "perform", "transfer"} => pc \in {"setopt", "perform", "transfer"}
  BY <1>5
<1> QED
  BY <1>1, <1>2, <1>3, <1>4, <1>5
  DEF Next, Local, Transfer, CurlInit, SetOptions, SetOptionFails, Perform, GetInfo,
      GetInfoFails, OpenFile, OpenFileFails, WriteFile, WriteFileFails, Release,
      Finalize, TransferBreaks, TransferEnds, Crash, Stopped, Fail, vars

LEMMA NextIInv == IInv /\ [Next]_vars => IInv'
BY ControlStep, AnswerStep, BlocksStep DEF IInv

-----------------------------------------------------------------------------
(* Theorems *)

LEMMA IInvHolds == Spec => []IInv
BY InitIInv, NextIInv, PTL DEF Spec

\* The types hold; in particular the buffer holds a beginning of the answer.
THEOREM DownloaderTypeCorrect == Spec => []TypeOK
<1>1. IInv => TypeOK
  BY DEF IInv
<1> QED
  BY <1>1, IInvHolds, PTL

\* Whatever fails, the handle is closed when DownloadFile returns to main.
THEOREM HandleAlwaysClosed == Spec => []HandleIsClosed
<1>1. IInv => HandleIsClosed
  BY DEF IInv, HandleIsHeld, HandleIsClosed
<1> QED
  BY <1>1, IInvHolds, PTL

\* However many chunks and failures there are, each download loses one block at most.
THEOREM LeakIsBounded == Spec => []OneBlockPerDownload
<1>1. IInv => OneBlockPerDownload
  BY DEF IInv, BlocksAreCounted, OneBlockPerDownload
<1> QED
  BY <1>1, IInvHolds, PTL

\* The return code and the code of the answer together tell what was appended, in all
\* cases: the answer for zero and 200, nothing otherwise.
THEOREM ReturnCodeIsTrue == Spec => ReturnCodeTellsSaved
<1>1. IInv /\ [Next]_vars
        => [pc # "release" /\ pc' = "release"
              => file' = IF nReturnCode' = 0 /\ status = "200" THEN file \o Stored(response)
                                                              ELSE file]_vars
  <2> SUFFICES ASSUME IInv, [Next]_vars, pc # "release", pc' = "release"
               PROVE  file' = IF nReturnCode' = 0 /\ status = "200" THEN file \o Stored(response)
                                                                   ELSE file
    OBVIOUS
  <2>1. CASE WriteFile
    BY <2>1 DEF WriteFile, callVars, IInv, AnswerIsWhole, NoErrorYet, Trying
  <2>2. CASE CallDownloadFile
    BY <2>2 DEF CallDownloadFile
  <2>3. CASE GetInfo
    BY <2>3 DEF GetInfo, callVars, IInv, NoErrorYet, Trying
  <2> QED
    BY <2>1, <2>2, <2>3
    DEF Next, Local, Transfer, CurlInit, SetOptions, SetOptionFails, Perform, GetInfoFails,
        OpenFile, OpenFileFails, WriteFileFails, Release, AppendSeparator, Finalize,
        WriteMemoryCallback, CallbackOutOfMemory, TransferBreaks, TransferEnds, Crash, Stopped,
        Fail, vars
<1> QED
  BY <1>1, IInvHolds, PTL DEF Spec, ReturnCodeTellsSaved

-----------------------------------------------------------------------------
(* Refinement: Downloader implements ResultFile *)

LEMMA InitRefines == Init => Result!Init
BY DEF Init, Result!Init, Phase

\* Each step of the program is a step of the result file or invisible to its reader.
LEMMA NextRefines ==
    ASSUME IInv, [Next]_vars
    PROVE  [Result!Next]_(Result!vars)
<1> USE DEF IInv, TypeOK, Phase, callVars
<1>1. CASE Perform
  <2>1. Result!Answer
    BY <1>1 DEF Perform, Result!Answer, InRound, Calling, Trying
  <2> QED
    BY <2>1 DEF Result!Next
<1>2. CASE WriteFile
  <2>1. Result!Save
    BY <1>2 DEF WriteFile, Stored, Result!Save, AnswerIsWhole, NoErrorYet, Trying
  <2> QED
    BY <2>1 DEF Result!Next
<1>3. CASE SetOptionFails \/ GetInfoFails \/ OpenFileFails \/ WriteFileFails
           \/ CallbackOutOfMemory \/ TransferBreaks
  <2>1. Result!GiveUp
    BY <1>3 DEF SetOptionFails, GetInfoFails, OpenFileFails, WriteFileFails,
                CallbackOutOfMemory, TransferBreaks, Fail, Result!GiveUp,
                InRound, Calling, Trying
  <2> QED
    BY <2>1 DEF Result!Next
<1>4. CASE CallDownloadFile
  <2>1. Result!GiveUp \/ UNCHANGED Result!vars
    BY <1>4 DEF CallDownloadFile, Result!GiveUp, Result!vars
  <2> QED
    BY <2>1 DEF Result!Next
<1>5. CASE GetInfo
  <2>1. Result!GiveUp \/ UNCHANGED Result!vars
    BY <1>5 DEF GetInfo, Result!GiveUp, Result!vars, InRound, Calling, Trying
  <2> QED
    BY <2>1 DEF Result!Next
<1>6. CASE AppendSeparator
  <2>1. Result!EndRound
    BY <1>6 DEF AppendSeparator, Result!EndRound
  <2> QED
    BY <2>1 DEF Result!Next
<1>7. CASE Crash
  <2>1. Result!Stop
    BY <1>7 DEF Crash, Result!Stop
  <2> QED
    BY <2>1 DEF Result!Next
<1>8. CASE CurlInit \/ SetOptions \/ OpenFile \/ Release \/ Finalize
           \/ WriteMemoryCallback \/ TransferEnds
  BY <1>8 DEF CurlInit, SetOptions, OpenFile, Release, Finalize, WriteMemoryCallback,
              TransferEnds, Result!vars
<1>9. CASE Stopped \/ UNCHANGED vars
  BY <1>9 DEF Stopped, vars, Result!vars
<1> QED
  BY <1>1, <1>2, <1>3, <1>4, <1>5, <1>6, <1>7, <1>8, <1>9 DEF Next, Local, Transfer

\* The program implements its result file, for all responses, any number of rounds and
\* all failures: a round appends its answer, cut where a DWORD ends, or nothing, then a
\* separator or nothing.
THEOREM Implementation == Spec => ImplementsResultFile
<1>1. Spec => []IInv
  BY IInvHolds
<1>2. IInv /\ [Next]_vars => [Result!Next]_(Result!vars)
  BY NextRefines
<1> QED
  BY <1>1, <1>2, InitRefines, PTL DEF Spec, ImplementsResultFile, Result!Spec

=============================================================================
