----------------------------- MODULE TrustedProxy -----------------------------
(***************************************************************************)
(* The trusted proxy of path-oram/src/trusted_proxy_layer.cpp with the file   *)
(* steps of splitter.cpp: it puts together what share files of a key and of a *)
(* ciphertext it finds, and decrypts. Everything goes through files in the    *)
(* working directory, which one run leaves to the next: a run may be killed    *)
(* between any two steps, and files may be lost or brought.                   *)
(*                                                                         *)
(* In this commit the option is the constant "-decrypt": every run that is     *)
(* given two arguments decrypts, one that is called with -encrypt too, and the *)
(* code that encrypts and writes share files is never reached. The share       *)
(* files come from outside. They are named by the encryption they are from,    *)
(* their generation. That minShares whole shares of one generation restore     *)
(* it, and that shares of several, or cut ones, restore nothing, is the        *)
(* matter of ModularSharing.                                                 *)
(***************************************************************************)
EXTENDS Naturals, Sequences, FiniteSets

CONSTANTS
  nSharesTotal,
  minShares,
  MaxGenerations,   \* bound: encryptions that share files are from
  MaxKills,         \* bound: runs that are killed
  NoFile,
  Cut,              \* a file that was not written to its end
  Garbage           \* what no key opens, and what no file held

Shares == 1 .. nSharesTotal
Generations == 1 .. MaxGenerations
ShareFiles == [Shares -> Generations \cup {NoFile, Cut}]

ASSUME ShareAssumption ==
  /\ nSharesTotal \in Nat /\ minShares \in 1 .. nSharesTotal
  /\ MaxGenerations \in Nat /\ MaxKills \in Nat
  /\ {NoFile, Cut, Garbage} \cap Generations = {}

VARIABLES
  key,         \* key-i.dat
  splits,      \* split-i.dat
  combined,    \* combined_shares.dat: the ciphertexts in it
  output,      \* the file given as second argument
  pc,          \* the step to be taken, or how the last run ended
  share,       \* i, the share of the step
  found,       \* the contents of the share files read by this step
  secret,      \* the key restored: that of a generation, or another
  kills,
  begun        \* history: the share files when the run began, if one did

files == <<key, splits, combined, output>>
locals == <<found, secret>>
vars == <<files, pc, share, locals, kills, begun>>

Idle == pc \in {"returned", "killed"}

Init ==
  /\ key = [i \in Shares |-> NoFile]
  /\ splits = [i \in Shares |-> NoFile]
  /\ combined = <<>>
  /\ output = NoFile
  /\ pc = "returned"
  /\ share = 1
  /\ found = <<>>
  /\ secret = Garbage
  /\ kills = 0
  /\ begun = [decrypts |-> FALSE, key |-> key, splits |-> splits]

Present(shareFiles) == {i \in Shares : shareFiles[i] # NoFile}

(* What shares restore: all that were found are used, so that one that is cut *)
(* or from elsewhere spoils the others.                                     *)
Restored(contents) ==
  IF contents # <<>> /\ \E g \in Generations : \A i \in DOMAIN contents : contents[i] = g
  THEN contents[1] ELSE Garbage

Step(from, to) == pc = from /\ pc' = to

(* A loop over the shares, of which this step does one. *)
EachShare(at, to) ==
  /\ pc = at
  /\ IF share < nSharesTotal
     THEN share' = share + 1 /\ pc' = at
     ELSE share' = 1 /\ pc' = to

-----------------------------------------------------------------------------
(* Between the runs *)

(* Whatever the first argument says. *)
Begin ==
  /\ Idle
  /\ pc' = "readKeys"
  /\ output' = NoFile
  /\ found' = <<>>
  /\ secret' = Garbage
  /\ begun' = [decrypts |-> TRUE, key |-> key, splits |-> splits]
  /\ UNCHANGED <<key, splits, combined, share, kills>>

(* A share file is lost, or one is brought, of any encryption or not whole;   *)
(* what the last run put out is taken away.                                  *)
Replaced(shareFile) ==
  \E i \in Shares, contents \in Generations \cup {NoFile, Cut} :
    shareFile' = [shareFile EXCEPT ![i] = contents]

Exchange ==
  /\ Idle
  /\ \/ Replaced(key) /\ UNCHANGED splits
     \/ Replaced(splits) /\ UNCHANGED key
  /\ pc' = "returned"
  /\ output' = NoFile
  /\ secret' = Garbage
  /\ begun' = [decrypts |-> FALSE, key |-> key, splits |-> splits]
  /\ UNCHANGED <<combined, share, found, kills>>

-----------------------------------------------------------------------------
(* The run *)

(* What a loop has found once it has looked at this share. *)
FoundWith(contents) == IF contents = NoFile THEN found ELSE Append(found, contents)

(* Key files are removed as they are read. With too few of them the run ends, *)
(* and returns 0.                                                           *)
ReadKey ==
  LET now == FoundWith(key[share])
      last == share = nSharesTotal
  IN  /\ EachShare("readKeys", IF Len(now) < minShares THEN "returned" ELSE "handle_text")
      /\ key' = [key EXCEPT ![share] = NoFile]
      /\ secret' = IF last /\ Len(now) >= minShares THEN Restored(now) ELSE secret
      /\ found' = IF last THEN <<>> ELSE now
      /\ UNCHANGED <<splits, combined, output, kills, begun>>

(* Faulty variant: reads on, and removes what it reads, however little. *)
HandleTextAnyway ==
  /\ Step("handle_text", "readSplits")
  /\ UNCHANGED <<files, share, locals, kills, begun>>

(* handle_text counts the data files first. If they are too few it returns,  *)
(* and its caller goes on to decrypt whatever combined_shares.dat there is.  *)
HandleText ==
  /\ Step("handle_text",
          IF Cardinality(Present(splits)) < minShares THEN "decrypt" ELSE "readSplits")
  /\ UNCHANGED <<files, share, locals, kills, begun>>

(* A header restored from shares that do not belong together may announce    *)
(* more chunks than there is memory for.                                    *)
HeaderUnusable ==
  /\ Step("handle_text", "killed")
  /\ Cardinality(Present(splits)) >= minShares
  /\ \E i, j \in Present(splits) : splits[i] # splits[j] \/ splits[i] = Cut
  /\ UNCHANGED <<files, share, locals, kills, begun>>

ReadSplit ==
  /\ EachShare("readSplits", "removeCombined")
  /\ splits' = [splits EXCEPT ![share] = NoFile]
  /\ found' = FoundWith(splits[share])
  /\ UNCHANGED <<key, combined, output, secret, kills, begun>>

(* Faulty variant: what an earlier run left is still there. *)
KeepCombined ==
  /\ Step("removeCombined", "combine")
  /\ UNCHANGED <<files, share, locals, kills, begun>>

RemoveCombined ==
  /\ Step("removeCombined", "combine")
  /\ combined' = <<>>
  /\ UNCHANGED <<key, splits, output, share, locals, kills, begun>>

(* The file is opened for appending. *)
Combine ==
  /\ Step("combine", "decrypt")
  /\ combined' = Append(combined, Restored(found))
  /\ found' = <<>>
  /\ UNCHANGED <<key, splits, output, share, secret, kills, begun>>

(* decryptSecretSharedData, when the key opens the ciphertext. The output is  *)
(* not closed: part of it may not be in the file before the program exits.   *)
DecryptSecretSharedData ==
  /\ Step("decrypt", "finish")
  /\ secret # Garbage /\ combined = <<secret>>
  /\ output' = Cut
  /\ UNCHANGED <<key, splits, combined, share, locals, kills, begun>>

(* When it does not: close_files_return() closes the files and its result is  *)
(* dropped, so that the loop goes on with closed files. It ends in a crash, or *)
(* comes to the end as if nothing had happened.                              *)
DecryptMismatch ==
  /\ pc = "decrypt"
  /\ combined # <<>>
  /\ secret = Garbage \/ combined # <<secret>>
  /\ output' \in {Cut, Garbage}
  /\ secret' = Garbage
  /\ pc' \in {"finish", "killed"}
  /\ UNCHANGED <<key, splits, combined, share, found, kills, begun>>

(* Without combined_shares.dat it reads from a null pointer. *)
DecryptNothing ==
  /\ Step("decrypt", "killed")
  /\ combined = <<>>
  /\ output' = Cut
  /\ UNCHANGED <<key, splits, combined, share, locals, kills, begun>>

(* remove, then exit, which writes what is left of the output. *)
Finish ==
  /\ Step("finish", "exit")
  /\ combined' = <<>>
  /\ UNCHANGED <<key, splits, output, share, locals, kills, begun>>

Exit ==
  /\ Step("exit", "returned")
  /\ output' = IF secret = Garbage THEN output ELSE secret
  /\ UNCHANGED <<key, splits, combined, share, locals, kills, begun>>

-----------------------------------------------------------------------------
(* A run is killed, before its next step or while that writes a file. *)
CutShort ==
  \/ UNCHANGED files
  \/ /\ pc = "combine" /\ combined' = Append(combined, Garbage)
     /\ UNCHANGED <<key, splits, output>>

Killed ==
  /\ ~Idle
  /\ kills < MaxKills
  /\ CutShort
  /\ pc' = "killed"
  /\ share' = 1
  /\ kills' = kills + 1
  /\ found' = <<>>
  /\ secret' = Garbage
  /\ UNCHANGED begun

Next ==
  \/ Begin
  \/ Exchange
  \/ ReadKey
  \/ HandleText
  \/ HeaderUnusable
  \/ ReadSplit
  \/ RemoveCombined
  \/ Combine
  \/ DecryptSecretSharedData
  \/ DecryptMismatch
  \/ DecryptNothing
  \/ Finish
  \/ Exit
  \/ Killed

Spec == Init /\ [][Next]_vars

-----------------------------------------------------------------------------
(* Properties *)

(* The share files in use are those of one generation, and enough of them. *)
Sufficient(shareFiles, g) ==
  /\ Cardinality(Present(shareFiles)) >= minShares
  /\ \A i \in Present(shareFiles) : shareFiles[i] = g

(* Enough shares of the key and of the data give the file back, whatever runs *)
(* came before: runs on shares of other encryptions, and runs that were       *)
(* killed half-way and left some of their files behind.                      *)
EnoughSharesRecover ==
  pc = "returned" /\ begun.decrypts =>
    \A g \in Generations :
      Sufficient(begun.key, g) /\ Sufficient(begun.splits, g) => output = g

(* A run that finds too few data files leaves them where they are: once the   *)
(* missing ones are there they can be used. (Key files it has consumed.)     *)
ShortageKeepsData ==
  begun.decrypts /\ Cardinality(Present(begun.splits)) < minShares =>
    splits = begun.splits

=============================================================================
