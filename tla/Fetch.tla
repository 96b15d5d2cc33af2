------------------------------- MODULE Fetch -------------------------------
(***************************************************************************)
(* One file of the download directory and the tasks that fetch, unpack and *)
(* clean it: bb.fetch2.Fetch with the wget method (bitbake/lib/bb/fetch2). *)
(*                                                                         *)
(* A fetch looks at what is there (verify_donestamp), asks the PREMIRRORS, *)
(* then upstream, then the MIRRORS, and checks what it got against the     *)
(* recipe (update_stamp).  wget downloads to a ".tmp" beside the file,     *)
(* continuing what it finds there, and renames it; a file:// mirror is     *)
(* linked to.  The result of the check is kept in a done stamp.  Recipes   *)
(* may have different urls for files of the same name, and a server may    *)
(* come to hold another file under it; they share the one ".tmp".          *)
(*                                                                         *)
(* All of it happens under the file's lock, which the kernel takes back    *)
(* from a task that dies (module FileLock), so what tasks see of each      *)
(* other is what a dead one left behind and what happens between a task's  *)
(* fetch and its unpack.                                                   *)
(***************************************************************************)
EXTENDS Naturals, Sequences

CONSTANTS Tasks,        \* the tasks whose recipe names the file
          Contents,     \* what a server may hold under the file's name
          Wants,        \* the content a task's recipe has the checksum of
          Mixed,        \* a download continued with another file's rest
          None,
          Empty,        \* a done stamp cut short before its checksums
          Upstreams, HttpMirrors, FileMirrors,
          UpstreamOf,   \* the server that a task's recipe names in its url
          Changing,     \* the servers whose file may be replaced
          Premirrors, Mirrors,     \* sequences of mirrors
          MaxFaults     \* bound: tasks killed, connections broken, files
                        \* replaced on a server

Sources == Upstreams \union HttpMirrors \union FileMirrors
Files   == Contents \union {Mixed}
Stages  == {"pre", "up", "post"}

ASSUME FetchAssumption ==
  /\ Wants \in [Tasks -> Contents]
  /\ Mixed \notin Contents
  /\ {None, Empty} \intersect (Files \union Sources) = {}
  /\ None # Empty
  /\ None \notin Tasks
  /\ UpstreamOf \in [Tasks -> Upstreams]
  /\ Upstreams \intersect (HttpMirrors \union FileMirrors) = {}
  /\ HttpMirrors \intersect FileMirrors = {}
  /\ Changing \subseteq Upstreams \union HttpMirrors
  /\ FileMirrors \intersect Files = {}
  /\ Premirrors \in Seq(HttpMirrors \union FileMirrors)
  /\ Mirrors \in Seq(HttpMirrors \union FileMirrors)
  /\ MaxFaults \in Nat

VARIABLES
  lock,      \* the task that holds the file's lock
  file,      \* what is in place: a file, a link to a file mirror, or None
  tmp,       \* the ".tmp": None, or how much of which file it holds
  stamp,     \* the done stamp: None, Empty, or the file it has the sums of
  serves,    \* what each source holds under the name
  pc, stage, todo,   \* per task: step, list in use, sources still to try
  gone,      \* the tasks whose file was cleaned after their fetch, or put
             \* aside by a recipe that has another checksum for its name
  faults

vars == <<lock, file, tmp, stamp, serves, pc, stage, todo, gone, faults>>

\* The states of a task that holds the lock.
Working == {"verify", "dropStamp", "try", "get", "place", "check", "write",
            "dropMirror", "cleanStamp"}

Temporaries == {None} \union [whole : BOOLEAN, of : Files]

TypeOK ==
  /\ lock \in Tasks \union {None}
  /\ file \in Files \union FileMirrors \union {None}
  /\ tmp \in Temporaries
  /\ stamp \in Files \union {None, Empty}
  /\ serves \in [Sources -> Contents \union {None}]
  /\ pc \in [Tasks -> Working \union {"idle", "fetched", "failed"}]
  /\ stage \in [Tasks -> Stages]
  /\ todo \in [Tasks -> Seq(Sources)]
  /\ gone \subseteq Tasks
  /\ faults \in 0 .. MaxFaults
  /\ \A t \in Tasks : pc[t] \in Working => lock = t   \* and so only one

\* What opening the file in place gives; a link may dangle.
InPlace == IF file \in FileMirrors THEN serves[file] ELSE file

\* verify_checksum: does the recipe of t have the checksum of c?
Accepts(t, c) == c = Wants[t]

Init ==
  /\ lock = None
  /\ file = None
  /\ tmp = None
  /\ stamp = None
  /\ serves \in [Sources -> Contents \union {None}]
  /\ pc = [t \in Tasks |-> "idle"]
  /\ stage = [t \in Tasks |-> "pre"]
  /\ todo = [t \in Tasks |-> <<>>]
  /\ gone = {}
  /\ faults = 0

-----------------------------------------------------------------------------
(* Where a fetch goes next.                                                *)

Go(t, step) == pc' = [pc EXCEPT ![t] = step]

SourcesOf(t, s) == CASE s = "pre"  -> Premirrors
                     [] s = "up"   -> <<UpstreamOf[t]>>
                     [] s = "post" -> Mirrors

\* Start on the list of a stage.
GoTo(t, s) ==
  /\ Go(t, "try")
  /\ stage' = [stage EXCEPT ![t] = s]
  /\ todo' = [todo EXCEPT ![t] = SourcesOf(t, s)]
  /\ lock' = lock

\* The finally clause: the lock is released however the fetch ends.
End(t, result) ==
  /\ Go(t, result)
  /\ lock' = None
  /\ stage' = [stage EXCEPT ![t] = "pre"]
  /\ todo' = [todo EXCEPT ![t] = <<>>]

Fail(t) == End(t, "failed")

\* Nothing more to hope for from this stage.
GiveUpStage(t) ==
  CASE stage[t] = "pre"  -> GoTo(t, "up")
    [] stage[t] = "up"   -> GoTo(t, "post")
    [] stage[t] = "post" -> Fail(t)

\* The next source of the same list.
NextSource(t) ==
  /\ Go(t, "try")
  /\ todo' = [todo EXCEPT ![t] = Tail(@)]
  /\ UNCHANGED <<lock, stage>>

Current(t) == Head(todo[t])

Stay == UNCHANGED <<lock, stage, todo>>

-----------------------------------------------------------------------------
(* The look at what is there: verify_donestamp for the recipe's own url.   *)

Begin(t) ==
  /\ pc[t] \in {"idle", "failed"}
  /\ lock = None
  /\ lock' = t
  /\ Go(t, "verify")
  /\ UNCHANGED <<file, tmp, stamp, serves, stage, todo, gone, faults>>

\* The checksums are the stamp's when it has any, else they are computed.
Recorded == IF stamp \in Files THEN stamp ELSE InPlace

VerifyMissing(t) ==
  /\ pc[t] = "verify"
  /\ InPlace = None
  /\ stamp' = None
  /\ GoTo(t, "pre")
  /\ UNCHANGED <<file, tmp, serves, gone, faults>>

\* The file will do; a stamp without checksums is opened to be rewritten.
VerifyRight(t) ==
  /\ pc[t] = "verify"
  /\ InPlace # None
  /\ Accepts(t, Recorded)
  /\ IF stamp \in Files
       THEN Go(t, "check") /\ stamp' = stamp
       ELSE Go(t, "write") /\ stamp' = Empty
  /\ Stay
  /\ UNCHANGED <<file, tmp, serves, gone, faults>>

\* The tasks that fetched the file for a recipe with another checksum.
Disagreeing(t) == {u \in Tasks : pc[u] = "fetched" /\ Wants[u] # Wants[t]}

\* mutant: the file is put aside and its stamp is forgotten.
VerifyWrongKeepsStamp(t) ==
  /\ pc[t] = "verify"
  /\ InPlace # None
  /\ ~Accepts(t, Recorded)
  /\ file' = None
  /\ gone' = gone \union Disagreeing(t)
  /\ GoTo(t, "pre")
  /\ UNCHANGED <<tmp, stamp, serves, faults>>

\* mutant: a file without a stamp is taken for a broken download.
VerifyWrongUnstamped(t) ==
  /\ pc[t] = "verify"
  /\ InPlace # None
  /\ stamp = None \/ ~Accepts(t, Recorded)
  /\ file' = None
  /\ gone' = gone \union Disagreeing(t)
  /\ Go(t, "dropStamp")
  /\ Stay
  /\ UNCHANGED <<tmp, stamp, serves, faults>>

\* rename_bad_checksum puts the file, or the link, aside ...
VerifyWrong(t) ==
  /\ pc[t] = "verify"
  /\ InPlace # None
  /\ ~Accepts(t, Recorded)
  /\ file' = None
  /\ gone' = gone \union Disagreeing(t)
  /\ Go(t, "dropStamp")
  /\ Stay
  /\ UNCHANGED <<tmp, stamp, serves, faults>>

\* ... and then the stamp is removed.
DropStamp(t) ==
  /\ pc[t] = "dropStamp"
  /\ stamp' = None
  /\ GoTo(t, "pre")
  /\ UNCHANGED <<file, tmp, serves, gone, faults>>

-----------------------------------------------------------------------------
(* One source after the other: try_mirrors and try_mirror_url, and         *)
(* Fetch.download's own try of upstream.                                   *)

NoMore(t) ==
  /\ pc[t] = "try"
  /\ todo[t] = <<>>
  /\ GiveUpStage(t)
  /\ UNCHANGED <<file, tmp, stamp, serves, gone, faults>>

TryHttp(t) ==
  /\ pc[t] = "try"
  /\ todo[t] # <<>>
  /\ Current(t) \notin FileMirrors
  /\ Go(t, "get")
  /\ Stay
  /\ UNCHANGED <<file, tmp, stamp, serves, gone, faults>>

\* Local.download raises: the mirror has no such file.
TryFileMissing(t) ==
  /\ pc[t] = "try"
  /\ todo[t] # <<>>
  /\ Current(t) \in FileMirrors
  /\ serves[Current(t)] = None
  /\ NextSource(t)
  /\ UNCHANGED <<file, tmp, stamp, serves, gone, faults>>

\* update_mirror_links: a link unless something is there; a dangling one
\* is replaced.
TryFile(t) ==
  /\ pc[t] = "try"
  /\ todo[t] # <<>>
  /\ Current(t) \in FileMirrors
  /\ serves[Current(t)] # None
  /\ file' = IF InPlace = None THEN Current(t) ELSE file
  /\ Go(t, "check")
  /\ Stay
  /\ UNCHANGED <<tmp, stamp, serves, gone, faults>>

-----------------------------------------------------------------------------
(* wget: Wget.download.                                                    *)

\* What "--continue" makes of the ".tmp" when the server holds c.
Continued(c) ==
  IF tmp = None \/ tmp.of = c THEN {c}
  ELSE IF tmp.whole THEN {tmp.of, Mixed} ELSE {Mixed}

\* wget's error ends this source.  What is in place is cleaned; the ".tmp"
\* is not.
Cleaned(t) ==
  /\ file' = None
  /\ IF stage[t] = "up" THEN GoTo(t, "post") ELSE NextSource(t)

\* The server has no such file.
GetNothing(t) ==
  /\ pc[t] = "get"
  /\ serves[Current(t)] = None
  /\ Cleaned(t)
  /\ UNCHANGED <<tmp, stamp, serves, gone, faults>>

\* The server does not answer, or the connection breaks after a part.
GetBreaks(t) ==
  /\ pc[t] = "get"
  /\ serves[Current(t)] # None
  /\ faults < MaxFaults
  /\ faults' = faults + 1
  /\ \/ tmp' = tmp
     \/ /\ tmp # None => ~tmp.whole
        /\ \E c \in Continued(serves[Current(t)]) :
             tmp' = [whole |-> FALSE, of |-> c]
  /\ Cleaned(t)
  /\ UNCHANGED <<stamp, serves, gone>>

GetWhole(t) ==
  /\ pc[t] = "get"
  /\ serves[Current(t)] # None
  /\ \E c \in Continued(serves[Current(t)]) : tmp' = [whole |-> TRUE, of |-> c]
  /\ Go(t, "place")
  /\ Stay
  /\ UNCHANGED <<file, stamp, serves, gone, faults>>

\* A mirror's checksums are ignored here; upstream's are not.
PassesWget(t) == stage[t] # "up" \/ Accepts(t, tmp.of)

\* mutant: the ".tmp" is copied into place.
PlaceCopies(t) ==
  /\ pc[t] = "place"
  /\ PassesWget(t)
  /\ file' = tmp.of
  /\ Go(t, "check")
  /\ Stay
  /\ UNCHANGED <<tmp, stamp, serves, gone, faults>>

\* The ".tmp" is renamed into place.
Place(t) ==
  /\ pc[t] = "place"
  /\ PassesWget(t)
  /\ file' = tmp.of
  /\ tmp' = None
  /\ Go(t, "check")
  /\ Stay
  /\ UNCHANGED <<stamp, serves, gone, faults>>

\* A checksum error of upstream: the ".tmp" stays, MIRRORS are next.
Refuse(t) ==
  /\ pc[t] = "place"
  /\ ~PassesWget(t)
  /\ file' = None
  /\ GoTo(t, "post")
  /\ UNCHANGED <<tmp, stamp, serves, gone, faults>>

-----------------------------------------------------------------------------
(* The check of what is in place: update_stamp.                            *)

\* The stamp exists: it is touched.  This is the last thing a fetch does.
Touch(t) ==
  /\ pc[t] = "check"
  /\ stamp # None
  /\ End(t, "fetched")
  /\ gone' = gone \ {t}
  /\ UNCHANGED <<file, tmp, stamp, serves, faults>>

\* mutant: the stamp is written before the check.
CheckRightAlways(t) ==
  /\ pc[t] = "check"
  /\ stamp = None
  /\ stamp' = Empty
  /\ Go(t, "write")
  /\ Stay
  /\ UNCHANGED <<file, tmp, serves, gone, faults>>

CheckRight(t) ==
  /\ pc[t] = "check"
  /\ stamp = None
  /\ Accepts(t, InPlace)
  /\ stamp' = Empty
  /\ Go(t, "write")
  /\ Stay
  /\ UNCHANGED <<file, tmp, serves, gone, faults>>

\* The checksums computed before are dumped into the opened stamp.
Write(t) ==
  /\ pc[t] = "write"
  /\ stamp' = InPlace
  /\ Go(t, "check")
  /\ Stay
  /\ UNCHANGED <<file, tmp, serves, gone, faults>>

\* The download is put aside.  After a premirror upstream is next, after a
\* mirror the fetch has failed; a linked mirror's file is still to follow.
CheckWrong(t) ==
  /\ pc[t] = "check"
  /\ stamp = None
  /\ ~Accepts(t, InPlace)
  /\ file' = None
  /\ IF Current(t) \in FileMirrors
       THEN Go(t, "dropMirror") /\ Stay
       ELSE GiveUpStage(t)
  /\ UNCHANGED <<tmp, stamp, serves, gone, faults>>

\* try_mirror_url's handler renames the mirror's own file, too.
DropMirror(t) ==
  /\ pc[t] = "dropMirror"
  /\ serves' = [serves EXCEPT ![Current(t)] = None]
  /\ NextSource(t)
  /\ UNCHANGED <<file, tmp, stamp, gone, faults>>

-----------------------------------------------------------------------------
(* The other tasks on the file.                                            *)

\* Fetch.unpack: under the lock, with no look at the checksum.
Unpack(t) ==
  /\ pc[t] = "fetched"
  /\ lock = None
  /\ Go(t, "idle")
  /\ UNCHANGED <<lock, file, tmp, stamp, serves, stage, todo, gone, faults>>

\* Fetch.clean: the file, then the stamp.  The ".tmp" is not looked at.
CleanFile(t) ==
  /\ pc[t] \in {"idle", "failed"}
  /\ lock = None
  /\ lock' = t
  /\ file' = None
  /\ gone' = gone \union {u \in Tasks : pc[u] = "fetched"}
  /\ Go(t, "cleanStamp")
  /\ UNCHANGED <<tmp, stamp, serves, stage, todo, faults>>

CleanStamp(t) ==
  /\ pc[t] = "cleanStamp"
  /\ stamp' = None
  /\ End(t, "idle")
  /\ UNCHANGED <<file, tmp, serves, gone, faults>>

\* A task is killed; the kernel takes its lock back.
Crash(t) ==
  /\ pc[t] \in Working
  /\ faults < MaxFaults
  /\ faults' = faults + 1
  /\ End(t, "idle")
  /\ UNCHANGED <<file, tmp, stamp, serves, gone>>

\* A server comes to hold another file under the name.
Republish(s) ==
  /\ faults < MaxFaults
  /\ faults' = faults + 1
  /\ \E c \in Contents \ {serves[s]} : serves' = [serves EXCEPT ![s] = c]
  /\ UNCHANGED <<lock, file, tmp, stamp, pc, stage, todo, gone>>

Verify(t) == VerifyMissing(t) \/ VerifyRight(t) \/ VerifyWrong(t)
Try(t)    == NoMore(t) \/ TryHttp(t) \/ TryFileMissing(t) \/ TryFile(t)
Check(t)  == Touch(t) \/ CheckRight(t) \/ CheckWrong(t)

Step(t) ==
  \/ Verify(t) \/ DropStamp(t) \/ Try(t)
  \/ GetNothing(t) \/ GetWhole(t) \/ Place(t) \/ Refuse(t)
  \/ Check(t) \/ Write(t) \/ DropMirror(t)
  \/ CleanStamp(t)

Next == \/ \E t \in Tasks :
             \/ Begin(t) \/ Step(t) \/ Unpack(t) \/ CleanFile(t)
             \/ GetBreaks(t) \/ Crash(t)
        \/ \E s \in Changing : Republish(s)

Spec == Init /\ [][Next]_vars

\* The task under the lock goes on, and a build is started again until the
\* fetch succeeds.
Fairness == /\ WF_vars(\E t \in Tasks : Step(t))
            /\ \A t \in Tasks : SF_vars(Begin(t))

FairSpec == Spec /\ Fairness

-----------------------------------------------------------------------------
(* What must hold.                                                         *)

\* A done stamp with checksums has those of the file in place, wherever a
\* task was killed: verify_donestamp may take them for the file's own.
StampIsOfTheFile ==
  stamp \in Files /\ InPlace # None => stamp = InPlace

\* Unpack looks at no checksum.  A task that fetched finds the file its
\* recipe has the checksum of, whatever tasks that agree with it fetched,
\* failed at or died in since, unless the file was cleaned.
UnpacksWhatItFetched ==
  \A t \in Tasks \ gone : pc[t] = "fetched" => Accepts(t, InPlace)

\* What the task under the lock may rely on at each step.
AtStep(t) ==
  /\ pc[t] \in {"dropStamp", "cleanStamp"} => file = None
  /\ pc[t] \in {"try", "get", "place"} => InPlace = None /\ stamp = None
  /\ pc[t] = "dropMirror" => file = None /\ stamp = None
  /\ pc[t] = "write" => stamp = Empty /\ Accepts(t, InPlace)
  /\ pc[t] = "check" => /\ InPlace # None
                        /\ stamp # None => stamp \in Files /\ Accepts(t, InPlace)
  /\ pc[t] = "place" => tmp.of \in Files

\* Whoever fetched before a file came in without a stamp has lost its file.
NewComer(t) ==
  pc[t] = "check" /\ stamp = None =>
    \A u \in Tasks : pc[u] = "fetched" => u \in gone

\* The sources a step looks at exist.
HasSource(t) ==
  /\ pc[t] \in {"get", "place", "dropMirror"} => todo[t] # <<>>
  /\ pc[t] = "check" /\ stamp = None => todo[t] # <<>>

\* Types, stamps, what was fetched, and what each step of a task has made sure
\* of: the inductive invariant of the proofs.
IInv ==
  /\ TypeOK
  /\ StampIsOfTheFile
  /\ UnpacksWhatItFetched
  /\ \A t \in Tasks : AtStep(t) /\ NewComer(t) /\ HasSource(t)

\* A fetch never takes away a file its own recipe accepts.
GoodFileStays ==
  [][\A t \in Tasks :
       pc[t] \in Working /\ Accepts(t, InPlace) => InPlace' = InPlace]_vars

\* A fetch does not fail as long as a file mirror ahead of all servers in
\* MIRRORS has the file: not for a bad premirror, a bad upstream, a stale
\* link or another task's rest.
AskedFirst == {Mirrors[i] : i \in {j \in 1 .. Len(Mirrors) :
                 \A k \in 1 .. j : Mirrors[k] \in FileMirrors}}

FailsForAReason ==
  [][\A t \in Tasks : pc[t] # "failed" /\ pc'[t] = "failed"
       => \A m \in AskedFirst : ~Accepts(t, serves[m])]_vars

\* No other file's ".tmp" lies in the way of t while nobody is fetching.
TmpIsClear(t) == lock = None /\ tmp # None => tmp.of = Wants[t]

\* Whatever is downloaded from a mirror is renamed before it is checked, so a
\* server among them that holds any file clears the ".tmp" away.
MirrorClearsTmp ==
  \E i \in DOMAIN (Premirrors \o Mirrors) :
    LET m == (Premirrors \o Mirrors)[i] IN m \in HttpMirrors /\ serves[m] # None

\* When a recipe's upstream has come to hold its file for good, a build that is
\* started again gets it, again and again, whatever the mirrors hold and what
\* killed tasks, broken connections and other recipes left; but for one thing:
\* a ".tmp" of another file that no server among the mirrors clears away.
\* Wget.download goes on from it and checks it before the rename (wget.py:126,
\* 141), so it stays, and so does the error.
EventuallyFetched(t) ==
  <>[](Accepts(t, serves[UpstreamOf[t]]) /\ (TmpIsClear(t) \/ MirrorClearsTmp))
    => []<>(pc[t] = "fetched")

\* A server in MIRRORS that delivered the recipe's file is not the last word
\* of a failed fetch.
GoodMirrorIsTaken ==
  [][\A t \in Tasks : pc[t] = "check" /\ pc'[t] = "failed"
       => ~Accepts(t, serves[Current(t)])]_vars
=============================================================================
