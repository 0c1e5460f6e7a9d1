------------------------------ MODULE PipeLog ------------------------------
(***************************************************************************)
(* The console log files (library/pipelog): the file of one name, the      *)
(* requests of its agent that write to it, the manager's requests that     *)
(* follow it, and its removal.                                             *)
(*                                                                         *)
(* A handle is one limitedFile object.  pipeFS hands out the handle its    *)
(* map holds; a request keeps using the one it got although Remove has     *)
(* dropped it from the map.  An inode is a file on disk: a removed file    *)
(* that is still open goes on existing without a name.                     *)
(***************************************************************************)
EXTENDS Integers, Sequences, SequencesExt, FiniteSetsExt

CONSTANTS
    Writers,    \* requests of the agent in flight at a time
    Readers,    \* followers of the manager at a time
    Size,       \* line -> its size in bytes, for the lines 1..MaxLines
    MaxLines,   \* bound on the lines written
    MaxSize,    \* maxsize of a file
    Block,      \* bytes that tailN reads at a time
    Asked,      \* the numbers of lines followers ask for (negative: all)
    MaxRemoves, \* bound on the removals of the file
    MaxFaults   \* bound on failing file operations

Line == 1..MaxLines
Handle == 1..(MaxRemoves + 1)
NoHandle == 0
Inode == 1..(MaxRemoves + 1)
NoInode == 0

\* What one write left in a file: its line, or the first bytes of it when the write failed.
Piece == [line : Line, bytes : Nat \ {0}]

\* The whole line, with the newline that ends it.
Whole(x) == x.bytes = Size[x.line]

ASSUME PipeAssumption ==
    /\ {MaxLines, MaxSize, Block, MaxRemoves, MaxFaults} \subseteq Nat
    /\ MaxSize > 0 /\ Block > 0
    /\ Size \in [Line -> Nat \ {0}]
    /\ Asked \subseteq Int
    /\ Writers \cap Readers = {}

VARIABLES
    files,     \* the handle in pf.files
    removing,  \* Remove holds pf.mutex: handle closed, file still to be unlinked
    removes,   \* removals so far
    path,      \* the inode under the name
    inodes,    \* inodes made so far
    content,   \* inode -> what was written to it
    fd,        \* handle -> the inode it has open
    filesize,  \* handle -> the size it keeps count of
    submap,    \* the registered followers
    wpc,       \* writer -> where it is
    wfile,     \* writer -> its handle
    wline,     \* writer -> its line
    targets,   \* writer -> followers it still has to notify
    lines,     \* lines taken by writers so far
    rpc,       \* reader -> where it is
    asked,     \* reader -> n of its request
    rfd,       \* reader -> the inode readN has open
    rpos,      \* reader -> pieces tailAll has read, or pieces there at tailN's Stat
    got,       \* reader -> the lines it was sent
    cut,       \* (history) followers whose own reading of the file failed
    crossed,   \* (history) a line was written through a handle no longer in the map
    faults     \* failed file operations so far

fsVars == <<files, removing, removes>>
diskVars == <<path, inodes, content, fd, filesize, crossed>>
writerVars == <<wpc, wfile, wline, targets, lines>>
readerVars == <<submap, rpc, asked, rfd, rpos, got, cut>>
vars == <<fsVars, diskVars, writerVars, readerVars, faults>>

TypeOK ==
    /\ files \in Handle \cup {NoHandle}
    /\ removing \in BOOLEAN
    /\ removes \in 0..MaxRemoves
    /\ path \in Inode \cup {NoInode}
    /\ inodes \in 0..(MaxRemoves + 1)
    /\ content \in [Inode -> Seq(Piece)]
    /\ fd \in [Handle -> Inode \cup {NoInode}]
    /\ filesize \in [Handle -> Nat]
    /\ submap \subseteq Readers
    /\ wpc \in [Writers -> {"idle", "open", "written", "notify"}]
    /\ wfile \in [Writers -> Handle \cup {NoHandle}]
    /\ wline \in [Writers -> Line \cup {0}]
    /\ targets \in [Writers -> SUBSET Readers]
    /\ lines \in 0..MaxLines
    /\ rpc \in [Readers ->
          {"idle", "opened", "subscribed", "tailall", "tailn", "torn", "streaming"}]
    /\ asked \in [Readers -> Asked \cup {0}]
    /\ rfd \in [Readers -> Inode \cup {NoInode}]
    /\ rpos \in [Readers -> Nat]
    /\ got \in [Readers -> SUBSET Line]
    /\ cut \subseteq Readers
    /\ crossed \in BOOLEAN
    /\ faults \in 0..MaxFaults

Init ==
    /\ files = NoHandle /\ removing = FALSE /\ removes = 0
    /\ path = NoInode /\ inodes = 0
    /\ content = [i \in Inode |-> <<>>]
    /\ fd = [h \in Handle |-> NoInode]
    /\ filesize = [h \in Handle |-> 0]
    /\ submap = {}
    /\ wpc = [w \in Writers |-> "idle"]
    /\ wfile = [w \in Writers |-> NoHandle]
    /\ wline = [w \in Writers |-> 0]
    /\ targets = [w \in Writers |-> {}]
    /\ lines = 0
    /\ rpc = [r \in Readers |-> "idle"]
    /\ asked = [r \in Readers |-> 0]
    /\ rfd = [r \in Readers |-> NoInode]
    /\ rpos = [r \in Readers |-> 0]
    /\ got = [r \in Readers |-> {}]
    /\ cut = {} /\ crossed = FALSE /\ faults = 0

\* A file operation fails.
Fault == faults < MaxFaults /\ faults' = faults + 1

\* pipeFS.Open: the handle in the map, or a new one put there.  Waits for pf.mutex.
Open(h) ==
    /\ ~removing
    /\ h = IF files = NoHandle THEN removes + 1 ELSE files
    /\ files' = h
-----------------------------------------------------------------------------
(* Bytes.  The size of a sequence of pieces, and where its piece k starts. *)
Bytes(c) ==
    LET upTo[k \in 0..Len(c)] == IF k = 0 THEN 0 ELSE upTo[k - 1] + c[k].bytes
    IN upTo[Len(c)]
Offset(c, k) == Bytes(SubSeq(c, 1, k - 1))

\* Where the lines of a file begin: with the file, and after each newline.  What follows the
\* rest of a failed write goes on with its line.
Lines(c) == {Offset(c, k) : k \in {j \in 1..Len(c) : j = 1 \/ Whole(c[j - 1])}}

\* bytes.Lines of the buffer that holds c from byte p on: where its lines begin.  The
\* first may be the rest of a line that began before p.
LineStarts(c, p) == {p} \cup {o \in Lines(c) : o > p}

\* Variant of TailFrom that stops as soon as it has n lines, the first cut or not.
TailFromEarly(c, n) ==
    LET p == Max({q \in {Bytes(c) - j * Block : j \in 1..Bytes(c)} :
                     q > 0 /\ Cardinality(LineStarts(c, q)) >= n} \cup {0})
        starts == LineStarts(c, p)
    IN Max({o \in starts : Cardinality({x \in starts : x >= o}) >= n} \cup {p})

\* tailN: read blocks backwards until the buffer has more than n lines or starts with the
\* file, and send its last n lines: the first byte sent.
TailFrom(c, n) ==
    LET p == Max({q \in {Bytes(c) - j * Block : j \in 1..Bytes(c)} :
                     q > 0 /\ Cardinality(LineStarts(c, q)) > n} \cup {0})
        starts == LineStarts(c, p)
    IN Max({o \in starts : Cardinality({x \in starts : x >= o}) >= n} \cup {p})

\* The lines written in full among the pieces ks of a file.
Written(c, ks) == {c[k].line : k \in {j \in ks : Whole(c[j])}}

\* The lines that tailN sends in full.
TailLines(c, n) == Written(c, {j \in 1..Len(c) : Offset(c, j) >= TailFrom(c, n)})
-----------------------------------------------------------------------------
(* A request of the agent: agtapi AgentConsole.write. *)

WOpen(w) ==
    /\ wpc[w] = "idle" /\ lines < MaxLines
    /\ \E h \in Handle :
          Open(h) /\ wfile' = [wfile EXCEPT ![w] = h]
    /\ lines' = lines + 1
    /\ wline' = [wline EXCEPT ![w] = lines + 1]
    /\ wpc' = [wpc EXCEPT ![w] = "open"]
    /\ UNCHANGED <<removing, removes, diskVars, targets, readerVars, faults>>

\* limitedFile.open: the inode and the size to go on with, opening or creating the file.
OpenInode(h) ==
    IF fd[h] # NoInode THEN fd[h] ELSE IF path # NoInode THEN path ELSE inodes + 1
OpenSize(h) ==
    IF fd[h] # NoInode THEN filesize[h] ELSE IF path # NoInode THEN Bytes(content[path]) ELSE 0
OpenFile(h) ==
    LET i == OpenInode(h) IN
    /\ fd' = [fd EXCEPT ![h] = i]
    /\ path' = IF fd[h] = NoInode THEN i ELSE path
    /\ inodes' = IF i > inodes THEN i ELSE inodes

\* A follower in the middle of tailN on a file that is truncated has the old size.
Torn(i) == [r \in Readers |->
               IF rpc[r] = "tailn" /\ rfd[r] = i THEN "torn" ELSE rpc[r]]

\* truncate, with c in the file and size counted: emptied when it has become too large.
\* A truncation that fails leaves the file for the next write to try again.
Truncate(h, i, c, size, ok) ==
    LET emptied == size >= MaxSize /\ ok IN
    /\ content' = [content EXCEPT ![i] = IF emptied THEN <<>> ELSE c]
    /\ filesize' = [filesize EXCEPT ![h] = IF emptied THEN 0 ELSE size]
    /\ rpc' = IF emptied THEN Torn(i) ELSE rpc

\* Variant of Write that starts counting at zero when it opens a file.
WriteCountsOwn(w) ==
    LET h == wfile[w]  i == OpenInode(h)  l == wline[w]
        size == Size[l] + IF fd[h] = NoInode THEN 0 ELSE filesize[h] IN
    /\ wpc[w] = "open"
    /\ OpenFile(h)
    /\ Truncate(h, i, Append(content[i], [line |-> l, bytes |-> Size[l]]), size, TRUE)
    /\ crossed' = (crossed \/ h # files)
    /\ wpc' = [wpc EXCEPT ![w] = "written"]
    /\ UNCHANGED <<fsVars, wfile, wline, targets, lines, submap, asked, rfd, rpos, got, cut, faults>>

\* limitedFile.write, under fmtx: append the line, count it, truncate.
Write(w) ==
    LET h == wfile[w]  i == OpenInode(h)  l == wline[w]  size == OpenSize(h) + Size[l]
        c == Append(content[i], [line |-> l, bytes |-> Size[l]]) IN
    /\ wpc[w] = "open"
    /\ OpenFile(h)
    /\ \/ Truncate(h, i, c, size, TRUE) /\ UNCHANGED faults
       \/ size >= MaxSize /\ Fault /\ Truncate(h, i, c, size, FALSE)
    /\ crossed' = (crossed \/ h # files)
    /\ wpc' = [wpc EXCEPT ![w] = "written"]
    /\ UNCHANGED <<fsVars, wfile, wline, targets, lines, submap, asked, rfd, rpos, got, cut>>

\* The request is answered: it lets go of its handle.
Answer(w) ==
    /\ wpc' = [wpc EXCEPT ![w] = "idle"]
    /\ wfile' = [wfile EXCEPT ![w] = NoHandle]
    /\ wline' = [wline EXCEPT ![w] = 0]

\* The file cannot be opened; or it is, and only the first n bytes of the line are written
\* (none, on most errors).  They are counted and may fill the file; nobody is notified.
WriteFails(w) ==
    LET h == wfile[w]  i == OpenInode(h)  l == wline[w] IN
    /\ wpc[w] = "open" /\ Fault
    /\ \/ UNCHANGED <<fd, path, inodes, content, filesize, crossed, rpc>>
       \/ /\ OpenFile(h)
          /\ \E n \in 0..(Size[l] - 1), ok \in BOOLEAN :
                LET c == IF n = 0 THEN content[i] ELSE Append(content[i], [line |-> l, bytes |-> n])
                IN Truncate(h, i, c, OpenSize(h) + n, ok)
          /\ crossed' = (crossed \/ h # files)
    /\ Answer(w)
    /\ UNCHANGED <<fsVars, targets, lines, submap, asked, rfd, rpos, got, cut>>

\* Variant of Snapshot that leaves out the followers that are still reading the file.
SnapshotStreaming(w) ==
    /\ wpc[w] = "written"
    /\ targets' = [targets EXCEPT ![w] = {r \in submap : rpc[r] = "streaming"}]
    /\ wpc' = [wpc EXCEPT ![w] = "notify"]
    /\ UNCHANGED <<fsVars, diskVars, wfile, wline, lines, readerVars, faults>>

\* notifyAll: the followers as they are now ...
Snapshot(w) ==
    /\ wpc[w] = "written"
    /\ targets' = [targets EXCEPT ![w] = submap]
    /\ wpc' = [wpc EXCEPT ![w] = "notify"]
    /\ UNCHANGED <<fsVars, diskVars, wfile, wline, lines, readerVars, faults>>

\* ... are each sent the line, in the order of a Go map; then the request is answered.
Notify(w) ==
    /\ wpc[w] = "notify"
    /\ \/ \E r \in targets[w] :
             /\ got' = [got EXCEPT ![r] = @ \cup {wline[w]}]
             /\ targets' = [targets EXCEPT ![w] = @ \ {r}]
             /\ UNCHANGED <<wpc, wfile, wline>>
       \/ /\ targets[w] = {}
          /\ Answer(w)
          /\ UNCHANGED <<got, targets>>
    /\ UNCHANGED <<fsVars, diskVars, lines, submap, rpc, asked, rfd, rpos, cut, faults>>

\* Variant of AutoClose that only looks at the handle in the map.
AutoCloseMapped(h) ==
    /\ fd[h] # NoInode /\ h = files
    /\ fd' = [fd EXCEPT ![h] = NoInode]
    /\ filesize' = [filesize EXCEPT ![h] = 0]
    /\ UNCHANGED <<fsVars, path, inodes, content, crossed, writerVars, readerVars, faults>>

\* autoclose: the idle timer, set while the file is open.
AutoClose(h) ==
    /\ fd[h] # NoInode
    /\ fd' = [fd EXCEPT ![h] = NoInode]
    /\ filesize' = [filesize EXCEPT ![h] = 0]
    /\ UNCHANGED <<fsVars, path, inodes, content, crossed, writerVars, readerVars, faults>>
-----------------------------------------------------------------------------
(* A follower: mgtapi AgentConsole.read. *)

ROpen(r) ==
    /\ rpc[r] = "idle"
    /\ \E h \in Handle : Open(h)
    /\ rpc' = [rpc EXCEPT ![r] = "opened"]
    /\ UNCHANGED <<removing, removes, diskVars, writerVars, submap, asked, rfd, rpos, got, cut, faults>>

\* Subscriber: register first ...
Subscriber(r, n) ==
    /\ rpc[r] = "opened"
    /\ submap' = submap \cup {r}
    /\ asked' = [asked EXCEPT ![r] = n]
    /\ rpc' = [rpc EXCEPT ![r] = "subscribed"]
    /\ UNCHANGED <<fsVars, diskVars, writerVars, rfd, rpos, got, cut, faults>>

\* A follower's reading fails or its connection breaks: Subscriber drops the error and the
\* follower stays registered, without the lines it has not been sent yet.
ReadFails(r) ==
    /\ Fault
    /\ cut' = cut \cup {r}
    /\ rpc' = [rpc EXCEPT ![r] = "streaming"]
    /\ rpos' = [rpos EXCEPT ![r] = 0]
    /\ rfd' = [rfd EXCEPT ![r] = NoInode]

\* ... then readN: open the file under the name, if it is there and any line is wanted.
ReadN(r) ==
    /\ rpc[r] = "subscribed"
    /\ \/ /\ asked[r] = 0 \/ path = NoInode
          /\ rpc' = [rpc EXCEPT ![r] = "streaming"]
          /\ UNCHANGED <<rfd, rpos, cut, faults>>
       \/ /\ asked[r] # 0 /\ path # NoInode
          /\ rfd' = [rfd EXCEPT ![r] = path]
          /\ rpos' = [rpos EXCEPT ![r] = IF asked[r] < 0 THEN 0 ELSE Len(content[path])]
          /\ rpc' = [rpc EXCEPT ![r] = IF asked[r] < 0 THEN "tailall" ELSE "tailn"]
          /\ UNCHANGED <<cut, faults>>
       \/ asked[r] # 0 /\ ReadFails(r)
    /\ UNCHANGED <<fsVars, diskVars, writerVars, submap, asked, got>>

\* The end of readN.
ReadEnds(r) ==
    /\ rpc' = [rpc EXCEPT ![r] = "streaming"]
    /\ rpos' = [rpos EXCEPT ![r] = 0]
    /\ rfd' = [rfd EXCEPT ![r] = NoInode]
    /\ UNCHANGED <<cut, faults>>

\* tailAll: buffer by buffer until the end of the file as it is then, or an error.
TailAll(r) ==
    LET c == content[rfd[r]] IN
    /\ rpc[r] = "tailall"
    /\ \/ \E to \in (rpos[r] + 1)..Len(c) :
             /\ got' = [got EXCEPT ![r] = @ \cup Written(c, (rpos[r] + 1)..to)]
             /\ rpos' = [rpos EXCEPT ![r] = to]
             /\ UNCHANGED <<rpc, rfd, cut, faults>>
       \/ rpos[r] >= Len(c) /\ ReadEnds(r) /\ UNCHANGED got
       \/ ReadFails(r) /\ UNCHANGED got
    /\ UNCHANGED <<fsVars, diskVars, writerVars, submap, asked>>

\* tailN: the last lines of what the file held at its Stat.  Of a file emptied since, the
\* blocks hold whatever was written after that, and zero bytes.  It sends nothing, or the
\* first of them only, when a block cannot be read or the connection breaks.
TailN(r) ==
    LET c == content[rfd[r]]
        found == IF rpc[r] = "tailn" THEN TailLines(SubSeq(c, 1, rpos[r]), asked[r])
                 ELSE Written(c, 1..Len(c)) IN
    /\ rpc[r] \in {"tailn", "torn"}
    /\ \E new \in SUBSET found :
          /\ got' = [got EXCEPT ![r] = @ \cup new]
          /\ \/ (rpc[r] = "tailn" => new = found) /\ ReadEnds(r)
             \/ ReadFails(r)
    /\ UNCHANGED <<fsVars, diskVars, writerVars, submap, asked>>

\* The manager hangs up: Unsubscriber.  What is still sent to it goes nowhere.
Unsubscriber(r) ==
    /\ rpc[r] = "streaming"
    /\ submap' = submap \ {r}
    /\ targets' = [w \in Writers |-> targets[w] \ {r}]
    /\ got' = [got EXCEPT ![r] = {}]
    /\ asked' = [asked EXCEPT ![r] = 0]
    /\ cut' = cut \ {r}
    /\ rpc' = [rpc EXCEPT ![r] = "idle"]
    /\ UNCHANGED <<fsVars, diskVars, wpc, wfile, wline, lines, rfd, rpos, faults>>
-----------------------------------------------------------------------------
(* mgtapi AgentConsole.remove: pipeFS.Remove, holding pf.mutex throughout. *)

\* Drop the handle from the map and close its file ...
RemoveClose ==
    /\ files # NoHandle /\ ~removing /\ removes < MaxRemoves
    /\ removes' = removes + 1
    /\ fd' = [fd EXCEPT ![files] = NoInode]
    /\ filesize' = [filesize EXCEPT ![files] = 0]
    /\ files' = NoHandle /\ removing' = TRUE
    /\ UNCHANGED <<path, inodes, content, crossed, writerVars, readerVars, faults>>

\* root.Remove: the name is gone, or stays when it fails.
Unlink ==
    \/ path' = NoInode /\ UNCHANGED faults
    \/ Fault /\ UNCHANGED path

\* ... and unlink it, which a writer of that handle may have opened again by then.
RemoveUnlink ==
    /\ removing
    /\ removing' = FALSE
    /\ Unlink
    /\ UNCHANGED <<files, removes, inodes, content, fd, filesize, crossed, writerVars, readerVars>>

\* No handle in the map: unlink the file.
RemoveOnly ==
    /\ files = NoHandle /\ ~removing /\ removes < MaxRemoves
    /\ removes' = removes + 1
    /\ Unlink
    /\ UNCHANGED <<files, removing, inodes, content, fd, filesize, crossed, writerVars, readerVars>>
-----------------------------------------------------------------------------
Next ==
    \/ \E w \in Writers : WOpen(w) \/ Write(w) \/ WriteFails(w) \/ Snapshot(w) \/ Notify(w)
    \/ \E r \in Readers :
          \/ ROpen(r) \/ (\E n \in Asked : Subscriber(r, n))
          \/ ReadN(r) \/ TailAll(r) \/ TailN(r) \/ Unsubscriber(r)
    \/ \E h \in Handle : AutoClose(h)
    \/ RemoveClose \/ RemoveUnlink \/ RemoveOnly

Spec == Init /\ [][Next]_vars

\* The idle timer of a handle that is no longer in the map fires: nobody gets that handle
\* any more, so the writes that put the timer off come to an end.
FairSpec == Spec /\ \A h \in Handle : WF_vars(h # files /\ AutoClose(h))
-----------------------------------------------------------------------------
(* Properties. *)

\* Some writer has yet to send line l to follower r.
Pending(l, r) ==
    \E w \in Writers :
        /\ wline[w] = l
        /\ wpc[w] = "written" \/ (wpc[w] = "notify" /\ r \in targets[w])

\* A follower that asked for the whole file misses no line of it, however its reading of the
\* file overlaps writes, short or whole, truncations, removal and re-creation: every line the
\* file holds in full was sent to it or is about to be, unless its own reading failed.
NoGap ==
    \A r \in Readers \ cut :
        rpc[r] = "streaming" /\ asked[r] < 0 /\ path # NoInode =>
            \A l \in Written(content[path], 1..Len(content[path])) :
                l \in got[r] \/ Pending(l, r)

\* Between writes the file is smaller than maxsize, unless a file operation failed or a request
\* wrote through a handle it had got before a Remove.
SizeBound ==
    ~crossed /\ faults = 0 /\ path # NoInode => Bytes(content[path]) < MaxSize

\* tailN sends the whole file when it has at most n lines, and else from where exactly n lines
\* begin, whatever whole and broken-off lines the file holds and wherever the blocks begin.
TailNExact ==
    \A i \in Inode, n \in Line :
        LET starts == Lines(content[i])  from == TailFrom(content[i], n) IN
        IF Cardinality(starts) <= n THEN from = 0
        ELSE from \in starts /\ Cardinality({o \in starts : o >= from}) = n

\* A removed handle does not keep its file open for good.
StaleClosed ==
    \A h \in Handle : (fd[h] # NoInode /\ h # files) ~> (fd[h] = NoInode)
=============================================================================
