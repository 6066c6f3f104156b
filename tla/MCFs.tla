-------------------------------- MODULE MCFs --------------------------------
(***************************************************************************)
(* The file system above the log for TLC: inodes and names (Inode) and the *)
(* contents of files (FileData).  The two share the inode locks and the    *)
(* transactions and nothing else, and each has both, so a behaviour        *)
(* exercises one of them, chosen at the start; the other rests.            *)
(***************************************************************************)
EXTENDS Inode, TLC

CONSTANTS Layers,                                               \* the parts to look at
          FileOf, NBLOCKS, BSIZE, NDIRECT, MAXOPBLOCKS, Length  \* of FileData

VARIABLES layer, fdisk, fcommitted, ip, lock, off, foutstanding, fproc

Data == INSTANCE FileData WITH disk <- fdisk, committed <- fcommitted,
                               outstanding <- foutstanding, proc <- fproc

dvars == <<fdisk, fcommitted, ip, lock, off, foutstanding, fproc>>
allvars == <<layer, vars, dvars>>

FsInit ==
  /\ layer \in Layers
  /\ Init /\ (layer = "data" => calls = {})
  /\ Data!DInit

FsNext ==
  \/ layer = "names" /\ Next /\ UNCHANGED <<layer, dvars>>
  \/ layer = "data" /\ Data!DNext /\ UNCHANGED <<layer, vars>>

FsSpec == FsInit /\ [][FsNext]_allvars

\* The bitmap of the disk that a crash leaves has exactly the blocks that its
\* inodes name, each once (FileData: balloc(), bmap(), itrunc(), writei()).
BitmapExact == layer = "data" => Data!BitmapExact

\* Each byte below the size of a file reads back as it was written, after a
\* crash as before it (FileData: writei(), readi(), filewrite()).
ReadsBack == layer = "data" => Data!ReadsBack

-----------------------------------------------------------------------------
Symmetry == Permutations(Procs)
LengthOf == <<3, 2>>
Inodes == <<1, 2>>

Call(op, type, path, new) == [op |-> op, type |-> type, path |-> path, new |-> new]
Dir(i, parent, n, ents) == [type |-> "dir", nlink |-> n, ents |-> Dots(i, parent) \o ents]
File == [type |-> "file", nlink |-> 1, ents |-> <<>>]

\* The file system while FileData moves.
Resting == [disk |-> <<Dir(1, 1, 1, <<>>), Free, Free>>, calls |-> {}]

\* Almost full: one free inode for everybody who wants to create something.
Contend ==
  [disk |-> <<Dir(1, 1, 1, <<Entry("z", 3)>>), Free, File>>,
   calls |-> {Call("link", "", <<"a">>, <<"b">>),
              Call("unlink", "", <<"a">>, <<>>),
              Call("unlink", "", <<"b">>, <<>>),
              Call("create", "file", <<"a">>, <<>>),
              Call("create", "dir", <<"a">>, <<>>),
              Call("create", "dev", <<"/", "b">>, <<>>),
              Call("open", "", <<"a">>, <<>>),
              Call("chdir", "", <<"a">>, <<>>)}]

\* The directories /a and /a/a, to be removed from inside and from outside.
Nested ==
  [disk |-> <<Dir(1, 1, 2, <<Entry("a", 2)>>), Dir(2, 1, 2, <<Entry("a", 3)>>), Dir(3, 2, 1, <<>>)>>,
   calls |-> {Call("chdir", "", <<"a">>, <<>>),
              Call("chdir", "", <<"..">>, <<>>),
              Call("unlink", "", <<"..">>, <<>>),
              Call("unlink", "", <<"..", "a">>, <<>>),
              Call("unlink", "", <<"a">>, <<>>),
              Call("unlink", "", <<"a", "a">>, <<>>)}]

Small == {Resting, Contend, Nested}
=============================================================================
