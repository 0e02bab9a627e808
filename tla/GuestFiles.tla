----------------------------- MODULE GuestFiles -----------------------------
(***************************************************************************)
(* The files guestd writes for the Host, as root, into directories that    *)
(* belong to the agent: streamed trees, single files, directories and      *)
(* removals.  What the agent left there may be links, symbolic or hard, to *)
(* what is not its own.  The service's handling of one entry is one step;  *)
(* programs of the agent go on between the entries of an upload, whose     *)
(* open directories outlive their names.  POSIX guests only: on Windows    *)
(* paths are written through (_PathTree).                                  *)
(***************************************************************************)
EXTENDS Integers, Sequences

CONSTANTS
  Names,       \* what an entry of a directory is called
  Nodes,       \* bound: files, directories and links there can be, 1 .. n
  MaxEntries,  \* bound: entries of one upload
  MaxTouch     \* bound: what the agent does

(* The directory uploads go to, one elsewhere, and a file in that.           *)
Root   == 1
Abroad == 2
Theirs == 3
Fixed  == {Root, Abroad, Theirs}

ASSUME FilesAssumption == Fixed \subseteq Nodes /\ 0 \notin Nodes /\ Names # {}

VARIABLES
  node,     \* of each node what it is, what it holds and whose it is
  entries,  \* of each directory the node each name has, or 0
  upload,   \* the tree being received
  answered, \* what the call told last, and how its entries arrived
  touches   \* how often the agent has intervened

fileVars == <<node, entries, upload, answered, touches>>

Nameless  == [n \in Names |-> 0]
NoUpload  == [open |-> FALSE, chain |-> <<>>, failed |-> FALSE, sent |-> <<>>, since |-> 0]
NoneTold  == [ok |-> FALSE, alone |-> FALSE, sent |-> <<>>]
Dir(who)        == [kind |-> "dir", data |-> "none", owner |-> who, to |-> 0]
File(what, who) == [kind |-> "file", data |-> what, owner |-> who, to |-> 0]
LinkTo(to, who) == [kind |-> "link", data |-> "none", owner |-> who, to |-> to]
Nothing         == File("none", "agent")
SomeName        == CHOOSE n \in Names : TRUE

FilesInit ==
  /\ node = [i \in Nodes |-> CASE i = Root -> Dir("agent") [] i = Abroad -> Dir("theirs")
                               [] i = Theirs -> File("theirs", "theirs") [] OTHER -> Nothing]
  /\ entries = [i \in Nodes |-> IF i = Abroad THEN [Nameless EXCEPT ![SomeName] = Theirs] ELSE Nameless]
  /\ upload = NoUpload /\ answered = NoneTold /\ touches = 0

(* A node is used as long as a name or an open directory leads to it.        *)
NamedNodes(ents)  == UNION {{ents[d][n] : n \in Names} : d \in Nodes}
OpenDirs(chain) == {chain[i].dir : i \in DOMAIN chain}
UnusedNodes(ents) == Nodes \ (NamedNodes(ents) \cup OpenDirs(upload.chain) \cup Fixed)
AnyNames(i)  == TRUE
OneName(i)   == \A p, q \in Nodes \X Names :
                  entries[p[1]][p[2]] = i /\ entries[q[1]][q[2]] = i => p = q

(* A tree of nodes, as the system calls of one entry change it.              *)
Now == [node |-> node, entries |-> entries, ok |-> TRUE]
NodeAt(t, d, n)   == t.entries[d][n]
IsA(t, i, kind) == i # 0 /\ t.node[i].kind = kind
Spoiled(t)    == [t EXCEPT !.ok = FALSE]
Unlinked(t, d, n)  == [t EXCEPT !.entries[d][n] = 0]
Linked(t, d, n, i) == [t EXCEPT !.entries[d][n] = i]
Emptied(t, i)      == [t EXCEPT !.entries[i] = Nameless]
Owned(t, i)        == [t EXCEPT !.node[i].owner = "owner"]
Filled(t, i, what) == [t EXCEPT !.node[i] = what]
WithNew(t, d, n, what) ==
  LET new == CHOOSE i \in UnusedNodes(t.entries) : TRUE
  IN IF UnusedNodes(t.entries) = {} THEN Spoiled(t)
     ELSE [t EXCEPT !.node[new] = what, !.entries[new] = Nameless, !.entries[d][n] = new]

(* What no name and no open directory leads to is gone.                      *)
Reached(t, chain) ==
  LET top == Fixed \cup OpenDirs(chain) \cup {t.entries[Root][n] : n \in Names}
  IN top \cup {t.entries[p[1]][p[2]] : p \in (top \ {0}) \X Names}

Settles(t, chain) == \E kept \in {Reached(t, chain)} :
  /\ node'  = [i \in Nodes |-> IF i \in kept THEN t.node[i] ELSE Nothing]
  /\ entries' = [i \in Nodes |-> IF i \in kept THEN t.entries[i] ELSE Nameless]

-----------------------------------------------------------------------------
(* _enter: a directory is taken over, a link replaced by one.                *)
Entered(t, d, n) ==
  LET i == NodeAt(t, d, n)
  IN CASE i = 0            -> WithNew(t, d, n, Dir("owner"))
       [] IsA(t, i, "dir") -> Owned(t, i)
       [] IsA(t, i, "link") -> WithNew(Unlinked(t, d, n), d, n, Dir("owner"))
       [] OTHER            -> Spoiled(t)

(* _at: the open directories as far as they are those of the path, and the   *)
(* next one entered.  Paths have at most two names here.                     *)
KeptOf(path) ==
  IF path # <<>> /\ upload.chain # <<>> /\ upload.chain[1].name = path[1] THEN upload.chain ELSE <<>>

Descend(path) ==
  LET kept == KeptOf(path)
      t    == IF Len(kept) = Len(path) THEN Now ELSE Entered(Now, Root, path[1])
  IN [tree  |-> t,
      chain |-> IF Len(kept) = Len(path) THEN kept
                ELSE IF t.ok THEN <<[name |-> path[1], dir |-> NodeAt(t, Root, path[1])]>> ELSE <<>>]

Below(chain) == IF chain = <<>> THEN Root ELSE chain[1].dir

(* What is at the name is unlinked, which a directory does not allow, and    *)
(* the file or link made there is a new one.                                 *)
Cleared(t, d, n) ==
  IF ~t.ok \/ IsA(t, NodeAt(t, d, n), "dir") THEN Spoiled(t) ELSE Unlinked(t, d, n)
Placed(t, d, n, what) ==
  LET c == Cleared(t, d, n) IN IF c.ok THEN WithNew(c, d, n, what) ELSE c

StartUpload ==
  /\ ~upload.open /\ answered' = NoneTold
  /\ upload' = [open |-> TRUE, chain |-> <<>>, failed |-> FALSE, sent |-> <<>>, since |-> touches]
  /\ node' = [node EXCEPT ![Root].owner = "owner"] /\ UNCHANGED <<entries, touches>>

Take(t, chain, item) ==
  /\ Settles(t, chain)
  /\ upload' = [open |-> TRUE, chain |-> chain, failed |-> ~ t.ok,
                 sent |-> Append(upload.sent, item), since |-> upload.since]
  /\ UNCHANGED <<answered, touches>>

Receiving == upload.open /\ ~upload.failed /\ Len(upload.sent) < MaxEntries

(* The Host sends each path of a tree once.                                  *)
Above(path) == SubSeq(path, 1, Len(path) - 1)
Fits(path) == \A i \in DOMAIN upload.sent :
  LET item == upload.sent[i]
  IN item.path # path /\ (item.path = Above(path) => item.kind = "dir")
       /\ Above(item.path) # path

PutDirectory ==
  /\ Receiving
  /\ \E n \in Names : Fits(<<n>>) /\
       LET way == Descend(<<n>>)
       IN Take(way.tree, way.chain, [kind |-> "dir", path |-> <<n>>, full |-> TRUE])

(* _copy: a body that cannot be written is drained all the same; it leaves   *)
(* the file and fails the upload.                                            *)
Copied(t, full) == [t EXCEPT !.ok = @ /\ full]

PutFile ==
  /\ Receiving
  /\ \E path \in {<<>>} \cup {<<n>> : n \in Names}, n \in Names, full \in BOOLEAN :
       Fits(Append(path, n)) /\
       LET way == Descend(path)
           t   == Placed(way.tree, Below(way.chain), n, File(IF full THEN "sent" ELSE "part", "owner"))
       IN Take(Copied(t, full), way.chain,
               [kind |-> "file", path |-> Append(path, n), full |-> full])

PutSymlink ==
  /\ Receiving
  /\ \E path \in {<<>>} \cup {<<n>> : n \in Names}, n \in Names : Fits(Append(path, n)) /\
       LET way == Descend(path)
           t   == Placed(way.tree, Below(way.chain), n, LinkTo(Abroad, "owner"))
       IN Take(t, way.chain, [kind |-> "link", path |-> Append(path, n), full |-> TRUE])

(* The first failure is told when the rest of the body has been drained.     *)
FinishUpload ==
  /\ upload.open /\ upload' = NoUpload
  /\ answered' = [ok |-> ~upload.failed, alone |-> touches = upload.since, sent |-> upload.sent]
  /\ Settles(Now, <<>>) /\ UNCHANGED touches

-----------------------------------------------------------------------------
AnswerWith(t) ==
  /\ ~upload.open /\ Settles(t, <<>>)
  /\ answered' = NoneTold /\ UNCHANGED <<upload, touches>>

(* _clear_link: what the link leads to is left alone.                        *)
WithoutLink(n) == IF IsA(Now, NodeAt(Now, Root, n), "link") THEN Unlinked(Now, Root, n) ELSE Now

(* _open_for_write: a file with another name is replaced, but not appended   *)
(* to; the directory it is in was chosen by the framework.                   *)
OpenForWrite(n, append) ==
  LET t   == WithoutLink(n)
      i   == NodeAt(t, Root, n)
      new == File(IF append /\ IsA(t, i, "file") THEN "both" ELSE "sent", "owner")
  IN CASE i = 0 -> WithNew(t, Root, n, new)
       [] IsA(t, i, "dir") -> t
       [] IsA(t, i, "file") /\ OneName(i) -> Filled(t, i, new)
       [] OTHER -> IF append THEN t ELSE WithNew(Unlinked(t, Root, n), Root, n, new)

WriteFile == \E n \in Names, append \in BOOLEAN : AnswerWith(OpenForWrite(n, append))

WithDir(n) ==
  LET t == WithoutLink(n)
      i == NodeAt(t, Root, n)
  IN CASE i = 0            -> WithNew(t, Root, n, Dir("owner"))
       [] IsA(t, i, "dir") -> Owned(t, i)
       [] OTHER            -> t

MakeDirs == \E n \in Names : AnswerWith(WithDir(n))

(* A directory goes with what is below it, links and not what they lead to.  *)
RemovePath ==
  \E n \in Names :
    LET i == NodeAt(Now, Root, n)
        t == Unlinked(Now, Root, n)
    IN i # 0 /\ AnswerWith(IF IsA(Now, i, "dir") THEN Emptied(t, i) ELSE t)

-----------------------------------------------------------------------------
(* The agent's own programs: in its directory and those in it, they make     *)
(* files, directories, links to anything, and other names for a file or a    *)
(* directory's entry, move and remove.                                       *)
Touch ==
  /\ touches < MaxTouch /\ touches' = touches + 1 /\ answered' = NoneTold /\ UNCHANGED upload
  /\ \E d \in {Root} \cup {i \in NamedNodes(entries) : IsA(Now, i, "dir") /\ i # Abroad}, n \in Names :
       \E t \in
         (IF NodeAt(Now, d, n) # 0 THEN {Unlinked(Now, d, n)}
          ELSE {WithNew(Now, d, n, what) :
                  what \in {File("own", "agent"), LinkTo(Abroad, "agent"), LinkTo(Theirs, "agent")}
                             \cup (IF d = Root THEN {Dir("agent")} ELSE {})}
               \cup {Linked(Now, d, n, Theirs)}
               \cup {Linked(Unlinked(Now, d, m), d, n, NodeAt(Now, d, m)) :
                       m \in {k \in Names : NodeAt(Now, d, k) # 0}}) :
         t.ok /\ Settles(t, upload.chain)

FilesNext ==
  \/ StartUpload \/ PutDirectory \/ PutFile \/ PutSymlink \/ FinishUpload
  \/ WriteFile \/ MakeDirs \/ RemovePath \/ Touch

-----------------------------------------------------------------------------
(* Where a path leads, no link followed.                                     *)
Lookup(path) ==
  LET d == IF Len(path) = 1 THEN Root ELSE entries[Root][path[1]]
  IN IF IsA(Now, d, "dir") THEN entries[d][path[Len(path)]] ELSE 0

(* Nothing that is not the agent's is written, renamed or handed to another  *)
(* owner, wherever the names in the agent's directory lead; and an upload    *)
(* that is told to have succeeded, while nobody touched the place, is there, *)
(* every entry under its own path, whatever was there before.                *)
FilesLandWhereSent ==
  /\ node[Theirs] = File("theirs", "theirs") /\ node[Abroad] = Dir("theirs")
  /\ entries[Abroad] = [Nameless EXCEPT ![SomeName] = Theirs]
  /\ answered.ok /\ answered.alone => \A i \in DOMAIN answered.sent :
       LET there == Lookup(answered.sent[i].path)
       IN /\ IsA(Now, there, answered.sent[i].kind) /\ node[there].owner = "owner"
          /\ node[there].kind = "file" => node[there].data = "sent"
=============================================================================
