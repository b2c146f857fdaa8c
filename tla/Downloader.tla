----------------------------- MODULE Downloader -----------------------------
(***************************************************************************)
(* GetDataAndPrintDataUsingCurl/test.cpp: main fetches the same URL a      *)
(* number of times with one curl context and appends what it got, and a    *)
(* separator, to one file.                                                 *)
(*                                                                         *)
(* libcurl, the heap, the server and the file system are external: each    *)
(* call to them may succeed or fail.  A response is a sequence of bytes    *)
(* that libcurl hands to WriteMemoryCallback in chunks of any length; a    *)
(* transfer may break off before its end.  The WriteFile of Windows        *)
(* appends as many bytes as it is asked to or fails; the program asks for  *)
(* filedata.size bytes, a size_t that is cut to a DWORD on the way.        *)
(*                                                                         *)
(* A call on a context that was cleaned up is undefined: the process may   *)
(* crash, or the call may return any of its results.                       *)
(***************************************************************************)
EXTENDS Integers, Sequences, SequencesExt

CONSTANTS Responses,     \* the bodies a server may send: sequences of bytes
          Dword,         \* how many values a DWORD has (2^32)
          Separator,     \* the bytes main appends after each download
          Rounds         \* how many times main calls DownloadFile (2 in the code)

ASSUME ResponsesAssumption == Responses # {} /\ \A r \in Responses : r \in Seq(Range(r))
ASSUME DwordAssumption == Dword \in Nat \ {0}
ASSUME RoundsAssumption == Rounds \in Nat

VARIABLES pc,
          round,         \* main's i
          ctx,           \* the curl context: "null", "live", or "freed"
          response,      \* what the server sends in this call,
          status,        \*   and whether its HTTP code is 200
          body,          \* the bytes in filedata.memory; filedata.size is their length
          memory,        \* filedata.memory itself: "NULL" or "block"
          blocks,        \* how many blocks of the heap are allocated
          hFile,         \* DownloadFile's handle: "NULL", "INVALID", "open"
          nReturnCode,   \* 0, or 1 for any error code
          file           \* contents of the result file

heapVars == <<memory, blocks>>
vars == <<pc, round, ctx, response, status, body, heapVars, hFile, nReturnCode, file>>

callVars == <<response, status, body, heapVars, hFile, nReturnCode>>

-----------------------------------------------------------------------------

Init ==
    /\ pc = "init"
    /\ round = 0
    /\ ctx = "null"
    /\ response = <<>> /\ status = "other"
    /\ body = <<>>
    /\ memory = "NULL" /\ blocks = 0
    /\ hFile = "NULL"
    /\ nReturnCode = 0
    /\ file = <<>>

\* curl_easy_init
CurlInit ==
    /\ pc = "init"
    /\ pc' = "main"
    /\ ctx' \in {"null", "live"}
    /\ UNCHANGED <<round, callVars, file>>

\* malloc, or realloc of a null pointer: it may return null.
Malloc ==
    /\ memory' \in {"NULL", "block"}
    /\ blocks' = IF memory' = "block" THEN blocks + 1 ELSE blocks

\* Mutant of Realloc: a new block is taken and the old one forgotten.
ReallocForgets == memory' = "block" /\ blocks' = blocks + 1

\* realloc that succeeds: it frees the block it was given.
Realloc ==
    /\ memory' = "block"
    /\ blocks' = IF memory = "NULL" THEN blocks + 1 ELSE blocks

\* main enters DownloadFile.  A null context is refused there; otherwise a buffer
\* is allocated, and nothing is done if that fails.
CallDownloadFile ==
    /\ pc = "main"
    /\ round < Rounds
    /\ body' = <<>>
    /\ hFile' = "NULL"
    /\ \/ /\ ctx = "null"
          /\ pc' = "release" /\ nReturnCode' = 1
          /\ UNCHANGED heapVars
       \/ /\ ctx # "null"
          /\ pc' = "setopt" /\ nReturnCode' = 0
          /\ Malloc
    /\ UNCHANGED <<round, ctx, response, status, file>>

\* ERROR_CHECK_AND_MESSAGE_AND_RETURN: clean the context up, keep the error code
\* and go to the end of the function.
Fail ==
    /\ ctx' = "freed"
    /\ nReturnCode' = 1
    /\ pc' = "release"
    /\ UNCHANGED <<round, response, status, body, hFile, file>>

\* The six curl_easy_setopt calls, up to the first that fails.
SetOptions ==
    /\ pc = "setopt"
    /\ pc' = "perform"
    /\ UNCHANGED <<round, ctx, callVars, file>>

SetOptionFails == pc = "setopt" /\ Fail /\ UNCHANGED heapVars

-----------------------------------------------------------------------------
(* curl_easy_perform *)

\* The request is sent, and the server settles on an answer.
Perform ==
    /\ pc = "perform"
    /\ pc' = "transfer"
    /\ response' \in Responses
    /\ status' \in {"200", "other"}
    /\ UNCHANGED <<round, ctx, body, heapVars, hFile, nReturnCode, file>>

\* Mutant of WriteMemoryCallback: mem->size is not advanced.
CallbackOverwrites ==
    /\ pc = "transfer"
    /\ \E n \in Len(body) + 1 .. Len(response) : body' = SubSeq(response, Len(body) + 1, n)
    /\ Realloc
    /\ UNCHANGED <<pc, round, ctx, response, status, hFile, nReturnCode, file>>

\* The next chunk arrives, up to the n-th byte, and the buffer grows by it.
WriteMemoryCallback ==
    /\ pc = "transfer"
    /\ \E n \in Len(body) + 1 .. Len(response) :
          body' = body \o SubSeq(response, Len(body) + 1, n)
    /\ Realloc
    /\ UNCHANGED <<pc, round, ctx, response, status, hFile, nReturnCode, file>>

\* realloc fails: the pointer to the old block, which stays allocated, is lost, and
\* the result of the callback makes libcurl give the transfer up.
CallbackOutOfMemory ==
    /\ pc = "transfer"
    /\ Len(body) < Len(response)
    /\ memory' = "NULL"
    /\ UNCHANGED blocks
    /\ Fail

\* Mutant of TransferBreaks: the result of curl_easy_perform is not looked at.
TransferBreaksUnnoticed ==
    /\ pc = "transfer"
    /\ pc' = "getinfo"
    /\ UNCHANGED <<round, ctx, callVars, file>>

\* The connection fails, before, during or after the transfer of the body.
TransferBreaks == pc = "transfer" /\ Fail /\ UNCHANGED heapVars

TransferEnds ==
    /\ pc = "transfer"
    /\ Len(body) = Len(response)
    /\ pc' = "getinfo"
    /\ UNCHANGED <<round, ctx, callVars, file>>

-----------------------------------------------------------------------------
(* The rest of DownloadFile *)

\* Mutant of GetInfo: asks again until the code is 200.
GetInfoRetries ==
    /\ pc = "getinfo"
    /\ pc' = IF status = "200" THEN "open" ELSE "perform"
    /\ UNCHANGED <<round, ctx, callVars, file>>

\* curl_easy_getinfo; only a response with code 200 is saved.
GetInfo ==
    /\ pc = "getinfo"
    /\ pc' = IF status = "200" THEN "open" ELSE "release"
    /\ UNCHANGED <<round, ctx, callVars, file>>

GetInfoFails == pc = "getinfo" /\ Fail /\ UNCHANGED heapVars

OpenFile ==
    /\ pc = "open"
    /\ hFile' = "open"
    /\ pc' = "write"
    /\ UNCHANGED <<round, ctx, response, status, body, heapVars, nReturnCode, file>>

OpenFileFails ==
    /\ pc = "open"
    /\ hFile' = "INVALID"
    /\ nReturnCode' = 1
    /\ pc' = "release"
    /\ UNCHANGED <<round, ctx, response, status, body, heapVars, file>>

\* What WriteFile is asked to write of a buffer.  dwBytesWritten is not looked at.
Stored(b) == SubSeq(b, 1, Len(b) % Dword)

WriteFile ==
    /\ pc = "write"
    /\ file' = file \o Stored(body)
    /\ pc' = "release"
    /\ UNCHANGED <<round, ctx, callVars>>

\* Mutant of WriteFileFails: the return code is left at success.
WriteFileFailsSilently ==
    /\ pc = "write"
    /\ pc' = "release"
    /\ UNCHANGED <<round, ctx, callVars, file>>

WriteFileFails ==
    /\ pc = "write"
    /\ nReturnCode' = 1
    /\ pc' = "release"
    /\ UNCHANGED <<round, ctx, response, status, body, heapVars, hFile, file>>

\* Mutant of Release: the handle is not closed.
ReleaseKeepsHandle ==
    /\ pc = "release"
    /\ ctx # "null"
    /\ pc' = "separate"
    /\ UNCHANGED <<round, ctx, callVars, file>>

\* The label memoryrelease: reset the context, close the handle (or the null
\* handle, which does nothing).  filedata.memory is not released.
Release ==
    /\ pc = "release"
    /\ ctx # "null"
    /\ hFile' = IF hFile = "INVALID" THEN "INVALID" ELSE "NULL"
    /\ pc' = "separate"
    /\ UNCHANGED <<round, ctx, response, status, body, heapVars, nReturnCode, file>>

-----------------------------------------------------------------------------
(* The rest of main *)

\* main looks neither at the result of DownloadFile nor at those of the calls that
\* append the separator; the file cannot be opened while another handle is.
AppendSeparator ==
    /\ pc = "separate"
    /\ file' \in IF hFile = "open" THEN {file} ELSE {file, Append(file, Separator)}
    /\ round' = round + 1
    /\ pc' = "main"
    /\ UNCHANGED <<ctx, callVars>>

\* curl_easy_cleanup and curl_global_cleanup
Finalize ==
    /\ pc = "main"
    /\ round = Rounds
    /\ ctx' = IF ctx = "null" THEN "null" ELSE "freed"
    /\ pc' = "done"
    /\ UNCHANGED <<round, callVars, file>>

\* A call gets a context that has been cleaned up, or curl_easy_reset a null one.
UseOfBadContext ==
    \/ pc \in {"setopt", "perform", "transfer", "getinfo", "release"} /\ ctx = "freed"
    \/ pc = "main" /\ round = Rounds /\ ctx = "freed"
    \/ pc = "release" /\ ctx = "null"

Crash ==
    /\ UseOfBadContext
    /\ pc' = "crashed"
    /\ UNCHANGED <<round, ctx, callVars, file>>

Stopped == pc \in {"done", "crashed"} /\ UNCHANGED vars

\* Steps that wait for nobody.
Local ==
    \/ CurlInit \/ CallDownloadFile \/ SetOptions \/ SetOptionFails \/ Perform
    \/ GetInfo \/ GetInfoFails \/ OpenFile \/ OpenFileFails \/ WriteFile \/ WriteFileFails
    \/ Release \/ AppendSeparator \/ Finalize

\* Steps that need the network.
Transfer == WriteMemoryCallback \/ CallbackOutOfMemory \/ TransferBreaks \/ TransferEnds

Next == Local \/ Transfer \/ Crash \/ Stopped

Spec == Init /\ [][Next]_vars

\* The process is scheduled; the network promises nothing, and no timeout is set.
FairSpec == Spec /\ WF_vars(Local \/ Crash)

-----------------------------------------------------------------------------
(* Properties *)

TypeOK ==
    /\ pc \in {"init", "main", "setopt", "perform", "transfer", "getinfo", "open", "write",
               "release", "separate", "done", "crashed"}
    /\ round \in 0..Rounds
    /\ ctx \in {"null", "live", "freed"}
    /\ response \in Responses \cup {<<>>} /\ status \in {"200", "other"}
    /\ body \in Seq(Range(response)) /\ IsPrefix(body, response)
    /\ memory \in {"NULL", "block"} /\ blocks \in Nat
    /\ hFile \in {"NULL", "INVALID", "open"}
    /\ nReturnCode \in {0, 1}

\* The handle DownloadFile opened is closed on every path to its return, so that
\* main can open the file again.
HandleIsClosed == pc \in {"main", "separate", "done"} => hFile # "open"

\* What DownloadFile says it did: the answer of this call was appended to the file, as
\* far as a DWORD counts it, if it had code 200 and the return code is zero; in all
\* other cases nothing was.
ReturnCodeTellsSaved ==
    [][pc # "release" /\ pc' = "release"
          => file' = IF nReturnCode' = 0 /\ status = "200" THEN file \o Stored(response)
                                                          ELSE file]_vars

\* The buffers are never freed, and this is all that is lost: one block for each
\* download at most, however many chunks it came in and whichever calls failed.
OneBlockPerDownload ==
    /\ blocks <= round + 1
    /\ pc = "main" => blocks <= round

\* The phase of the round in progress, as the reader of the file sees it.  The
\* return code of DownloadFile tells what became of an answer with code 200.
Phase ==
    CASE pc = "crashed" -> "stopped"
      [] pc \in {"transfer", "getinfo", "open", "write"} -> "answered"
      [] pc \in {"release", "separate"} ->
            IF nReturnCode = 0 /\ status = "200" THEN "saved" ELSE "over"
      [] OTHER -> "before"

Result == INSTANCE ResultFile WITH phase <- Phase

\* The program implements its result file: what reaches it in a round is the whole
\* answer of that round, or what is left of an answer too long for a DWORD, or
\* nothing, even when a transfer breaks off, memory runs out or the file cannot be
\* written; and a return code of zero with code 200 says that the answer is there.
ImplementsResultFile == Result!Spec

\* The program ends, or waits for a server for ever: no timeout is set, and nothing
\* else can hold it up.
EndsOrWaits == <>(pc \in {"done", "crashed"}) \/ <>[](pc = "transfer")

\* Comment of DownloadFile, lines 69-70: it initialises the context again before it
\* returns, which is how main uses it for the next download.
ContextIsReset == pc = "separate" => ctx = "live"

=============================================================================
