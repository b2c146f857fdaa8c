----------------------------- MODULE NestedZip -----------------------------
(***************************************************************************)
(* zip_unzip/zip_unzip.py: packs a file into zip1.zip, zip1.zip into       *)
(* zip2.zip and so on, each archive with a small text file beside; or      *)
(* unpacks such a chain.                                                   *)
(*                                                                         *)
(* The working directory is what a run leaves to the next, so this models  *)
(* a user who runs the program again and again, interrupts it, and takes   *)
(* the last archive of a chain to an empty directory.  A file that was     *)
(* opened for writing and not closed, or cut off, is no valid archive.  An *)
(* exception (Ctrl-C, a disk error) is different from a kill: the `with'   *)
(* statements it leaves close their files, and a valid archive of what was *)
(* added so far remains.  The input is in the working directory or in      *)
(* another one, under any name but zip1.zip (the first archive would be    *)
(* packed into itself).                                                    *)
(***************************************************************************)
EXTENDS Integers, Sequences, Functions

CONSTANTS MaxCount,     \* bound: the largest number of levels a user asks for
          MaxRuns,      \* bound: how often the user does something
          Inputs        \* the files a user may pack: records of dir and name

VARIABLES files,        \* the working directory: name -> content, for the files there
          pc,           \* the next statement, "idle" between runs
          i, zip_count, \* the loop variable and the number of levels asked for
          input,        \* history: the file this user packs,
          asked,        \*   what it held when the last packing was started
          carried,      \*   the level and the content of the archive taken away,
          runs          \*   and how often the user has done something

vars == <<files, pc, i, zip_count, input, asked, carried, runs>>

-----------------------------------------------------------------------------
(* Files *)

Level == 1..MaxCount

Tmp(n) == <<"tmp", n>>
Zip(n) == <<"zip", n>>
Doc    == <<"doc", 0>>

Name == {Doc} \cup {Tmp(n) : n \in Level} \cup {Zip(n) : n \in Level}

ASSUME CountAssumption == MaxCount \in Nat \ {0} /\ MaxRuns \in Nat
ASSUME InputsAssumption ==
    Inputs \subseteq [dir : {"here", "elsewhere"}, name : Name \ {Zip(1)}]

Nothing    == [kind |-> "nothing"]
Original   == [kind |-> "original"]
Broken     == [kind |-> "broken"]       \* not all of what should be in the file
Text(n)    == [kind |-> "text", n |-> n]
Archive(m) == [kind |-> "zip", members |-> m]

Member(name, content) == [name |-> name, content |-> content]

CutOff(member) == Member(member.name, Broken)

Present == DOMAIN files

Written(name, content) ==
    [f \in Present \cup {name} |-> IF f = name THEN content ELSE files[f]]

\* A file elsewhere is never touched.
Source == IF input.dir = "elsewhere" THEN Original
          ELSE IF input.name \in Present THEN files[input.name] ELSE Nothing

-----------------------------------------------------------------------------

Init ==
    /\ input \in Inputs
    /\ \/ files = <<>>
       \/ input.dir = "here" /\ files = [f \in {input.name} |-> Original]
    /\ pc = "idle"
    /\ i = 0 /\ zip_count = 0
    /\ asked = Nothing /\ carried = <<0, Nothing>> /\ runs = 0

UserActs == pc = "idle" /\ runs < MaxRuns /\ runs' = runs + 1

\* The user starts the program and answers its questions.
Start(first, n) ==
    /\ UserActs
    /\ pc' = first
    /\ zip_count' = n
    /\ UNCHANGED <<files, input>>

RunZip ==
    \E n \in Level :
        /\ Start("tmp", n)
        /\ i' = 1
        /\ asked' = Source
        /\ carried' = <<0, Nothing>>

RunUnzip ==
    \E n \in Level :
        /\ Start("extract", n)
        /\ i' = n
        /\ UNCHANGED <<asked, carried>>

-----------------------------------------------------------------------------
(* Packing: create_zip_with_tmp for the first level, create_zip_with_tmpzip for *)
(* the others                                                                   *)

\* tmp<i>.txt is written, over whatever had that name.
WriteTmp ==
    /\ pc = "tmp"
    /\ files' = Written(Tmp(i), Text(i))
    /\ pc' = "open"
    /\ UNCHANGED <<i, zip_count, input, asked, carried, runs>>

\* The program ends while it writes tmp<i>.txt.
StopWriting ==
    /\ pc = "tmp"
    /\ files' = Written(Tmp(i), Broken)
    /\ pc' = "idle"
    /\ UNCHANGED <<i, zip_count, input, asked, carried, runs>>

\* zip<i>.zip is created, or truncated.
OpenZip ==
    /\ pc = "open"
    /\ files' = Written(Zip(i), Broken)
    /\ pc' = "add"
    /\ UNCHANGED <<i, zip_count, input, asked, carried, runs>>

\* Mutant of Packed: the name of the first archive is not counted up.
PackedFirst == IF i = 1 THEN Member(input.name, Source) ELSE Member(Zip(1), files[Zip(1)])

\* What goes first into the archive: the input (under its base name, wherever it
\* is) or the archive of the level before.
Packed == IF i = 1 THEN Member(input.name, Source) ELSE Member(Zip(i - 1), files[Zip(i - 1)])

\* Both members are added and the archive is closed, which makes it valid; then the
\* next level, if there is one.
AddMembers ==
    /\ pc = "add"
    /\ Packed.content # Nothing
    /\ files' = Written(Zip(i), Archive(<<Packed, Member(Tmp(i), files[Tmp(i)])>>))
    /\ pc' = IF i = zip_count THEN "idle" ELSE "tmp"
    /\ i' = i + 1
    /\ UNCHANGED <<zip_count, input, asked, carried, runs>>

\* Mutant of AddMissing: the error is caught and the loop goes on.
AddMissingGoesOn ==
    /\ pc = "add"
    /\ Packed.content = Nothing
    /\ files' = Written(Zip(i), Archive(<<>>))
    /\ pc' = IF i = zip_count THEN "idle" ELSE "tmp"
    /\ i' = i + 1
    /\ UNCHANGED <<zip_count, input, asked, carried, runs>>

\* The input is not there.  The exception leaves the `with' statement, which closes
\* the archive: it is valid and empty; then it ends the program.
AddMissing ==
    /\ pc = "add"
    /\ Packed.content = Nothing
    /\ files' = Written(Zip(i), Archive(<<>>))
    /\ pc' = "idle"
    /\ UNCHANGED <<i, zip_count, input, asked, carried, runs>>

\* Ctrl-C, or an error in one of the two calls of zf.write.  The exception leaves the
\* `with' statements of write, which end the member as it is, and that of the archive.
Interrupted ==
    /\ pc = "add"
    /\ Packed.content # Nothing
    /\ LET text == Member(Tmp(i), files[Tmp(i)])
       IN  \E members \in {<<>>, <<CutOff(Packed)>>, <<Packed>>,
                           <<Packed, CutOff(text)>>, <<Packed, text>>} :
              files' = Written(Zip(i), Archive(members))
    /\ pc' = "idle"
    /\ UNCHANGED <<i, zip_count, input, asked, carried, runs>>

-----------------------------------------------------------------------------
(* Unpacking *)

\* extractall: the members overwrite the files of their names, the later ones last.
Extracted(members) ==
    [f \in Present \cup {members[k].name : k \in DOMAIN members} |->
        IF \E k \in DOMAIN members : members[k].name = f
        THEN members[CHOOSE k \in DOMAIN members :
                        /\ members[k].name = f
                        /\ \A l \in DOMAIN members : members[l].name = f => l <= k].content
        ELSE files[f]]

IsArchive(name) == name \in Present /\ files[name].kind = "zip"

\* Mutant of NextLevelDown: range(zip_count, 1, -1).
NextLevelButLast ==
    /\ i' = i - 1
    /\ pc' = IF i <= 2 THEN "idle" ELSE "extract"
    /\ UNCHANGED <<zip_count, input, asked, carried, runs>>

NextLevelDown ==
    /\ i' = i - 1
    /\ pc' = IF i = 1 THEN "idle" ELSE "extract"
    /\ UNCHANGED <<zip_count, input, asked, carried, runs>>

ExtractZip ==
    /\ pc = "extract"
    /\ IsArchive(Zip(i))
    /\ files' = Extracted(files[Zip(i)].members)
    /\ NextLevelDown

\* The file is missing or is no archive: a message, and on to the next one.
SkipZip ==
    /\ pc = "extract"
    /\ ~IsArchive(Zip(i))
    /\ UNCHANGED files
    /\ NextLevelDown

-----------------------------------------------------------------------------
(* The user *)

\* The program ends, killed or by an exception, while extractall writes member k.
KillExtracting ==
    /\ pc = "extract"
    /\ IsArchive(Zip(i))
    /\ \E k \in DOMAIN files[Zip(i)].members :
          LET written == SubSeq(files[Zip(i)].members, 1, k)
          IN  files' = Extracted([written EXCEPT ![k].content = Broken])
    /\ pc' = "idle"
    /\ UNCHANGED <<i, zip_count, input, asked, carried, runs>>

\* The process is killed between two statements, or inside zf.write.
Kill ==
    /\ pc # "idle"
    /\ pc' = "idle"
    /\ UNCHANGED <<files, i, zip_count, input, asked, carried, runs>>

\* What was packed at the bottom of the chain of archives that ends with content c
\* at level n.
Innermost(c, n) ==
    LET peeled[k \in 0..n] ==
            IF k = 0 THEN c
            ELSE IF peeled[k - 1].kind = "zip" /\ peeled[k - 1].members # <<>>
            THEN peeled[k - 1].members[1].content
            ELSE Nothing
    IN  peeled[n]

\* One archive is taken to an empty directory.
TakeAway ==
    /\ UserActs
    /\ \E n \in Level :
          /\ IsArchive(Zip(n))
          /\ files' = [f \in {Zip(n)} |-> files[Zip(n)]]
          /\ carried' = <<n, Innermost(files[Zip(n)], n)>>
    /\ UNCHANGED <<pc, i, zip_count, input, asked>>

Next ==
    \/ RunZip \/ RunUnzip
    \/ WriteTmp \/ StopWriting \/ OpenZip \/ AddMembers \/ AddMissing \/ Interrupted
    \/ ExtractZip \/ SkipZip
    \/ Kill \/ KillExtracting \/ TakeAway

Spec == Init /\ [][Next]_vars

-----------------------------------------------------------------------------
(* Properties *)

\* A chain of archives down from level n, each with the archive below and the text
\* of its level, and some file that is there at the bottom.
Whole(c, n) ==
    LET whole[k \in 0..n] ==
            LET at == IF k = n THEN c ELSE Innermost(c, n - k)
            IN  IF k = 0 THEN at # Nothing
                ELSE /\ at.kind = "zip"
                     /\ Len(at.members) = 2
                     /\ at.members[2] = Member(Tmp(k), Text(k))
                     /\ whole[k - 1]
    IN  whole[n]

\* Whatever was interrupted and however often, only the outermost level of a valid
\* archive under a name of the program can lack something: it holds nothing, or a first
\* member that is cut off, or a whole chain of the levels below and then its own text,
\* complete, cut off or missing.  So what an interrupted or failed run leaves is never
\* packed into a further level.
ArchivesAreWhole ==
    \A n \in Level :
        IsArchive(Zip(n)) =>
            LET members == files[Zip(n)].members
            IN  \/ members = <<>>
                \/ Len(members) = 1 /\ members[1].content = Broken
                \/ /\ Len(members) \in {1, 2}
                   /\ Whole(members[1].content, n - 1)
                   /\ Len(members) = 2 => \/ members[2] = Member(Tmp(n), Text(n))
                                          \/ members[2] = Member(Tmp(n), Broken)

\* A packing that goes through to its end has at the bottom of the chain what the
\* input held at its start, even when the input has a name that the program itself
\* writes to at a later level.  The one exception is a tmp1.txt in the working
\* directory: it is written over before it is packed (line 10), although the comment
\* in line 15 calls the first member the file that was input.
PackingKeepsInput ==
    [][pc = "add" /\ pc' = "idle" /\ i' = zip_count + 1
          => Innermost(files'[Zip(zip_count)], zip_count)
                = IF input = [dir |-> "here", name |-> Tmp(1)] THEN Text(1) ELSE asked]_vars

\* From the last archive alone, an unpacking with the same count that goes through to
\* its end (i moves; a kill leaves it) brings the file back, however many other runs,
\* interrupted ones included, came in between, and although the carried archive was left
\* by an interrupted run, if only there is something at its bottom; also a file that is
\* named like one of the lower archives and comes back over the archive it was taken
\* from.  Left out are tmp1.txt, which the text of the first level overwrites, and the
\* names of the carried archive and those above it: if the file is an archive itself, it
\* then stays there, and the next unpacking unpacks the file.
RoundTrip ==
    [][/\ pc = "extract" /\ pc' = "idle" /\ i' # i
       /\ zip_count = carried[1] /\ carried[2] # Nothing
       /\ input.name \notin {Tmp(1)} \cup {Zip(n) : n \in carried[1]..MaxCount}
       => files'[input.name] = carried[2]]_vars

=============================================================================
