------------------------------ MODULE MCSharing ------------------------------
(***************************************************************************)
(* Sharing for TLC: an admin, and a reader whose collection holds a comic  *)
(* of the library; one more comic arrives.  Calls are interchangeable.     *)
(***************************************************************************)
EXTENDS Sharing, TLC

CONSTANTS u1, u2, x1, x2, k1, k2, t1, r1, r2

MCShelf == [c \in Comics |->
  IF c = x1 THEN [source |-> "library", owner |-> None, hidden |-> FALSE, title |-> None]
  ELSE None]
MCKept == [k \in Colls |->
  IF k = k1 THEN [owner |-> u2, shared |-> FALSE, cover |-> None] ELSE None]
MCHeld == [k \in Colls |-> [c \in Comics |-> IF k = k1 /\ c = x1 THEN 0 ELSE None]]

MCOrders == {<<x1>>, <<x2, x1>>}

\* One call of each script, by whom it makes a difference.
MCAsks ==
  CallsOn(OfAdmins, {u1}, {x1}, {None})
  \cup CallsOn({handleRenameComic, handleDeleteComic}, Users, {x2}, {None})
  \cup CallsOn({createDownloadLink, handleComicDownload}, {u2}, {x2}, {None})
  \cup CallsOn({handleGetComic}, {u1}, {x2}, {None})
  \cup {[q EXCEPT !.add = a] :
          q \in CallsOn({handleSetTags}, {u2}, {x1}, {None}), a \in SUBSET Tags}
  \cup {[q EXCEPT !.cut = x] :
          q \in CallsOn({tagComics}, {u2}, {x1}, {None}), x \in SUBSET Tags}
  \cup CallsOn({handleAddToCollection, handleRemoveFromCollection}, {u2}, Comics, {k1})
  \cup CallsOn({handleRemoveFromCollection}, {u1}, {x1}, {k1})
  \cup CallsOn({editCollectionComics}, {u2}, {x1}, {k1})
  \cup CallsOn({Adopt}, {u2}, {x2}, {None})
  \cup CallsOn({handleSetCollectionCover}, {u2}, {x2}, {k1})
  \cup CallsOn({handleUploadComic}, Users, {x2}, {k1})
  \cup {[q EXCEPT !.flag = b] :
          q \in CallsOn({handleUpdateCollection}, Users, {None}, {k1})
                \cup CallsOn({updateCollection}, {u2}, {x2}, {k1}), b \in BOOLEAN}
  \cup CallsOn({handleDeleteCollection}, {u2}, {None}, {k1})
  \cup CallsOn({handleCreateCollection}, {u1}, {None}, {k2})
  \cup {[q EXCEPT !.order = o] :
          q \in CallsOn({handleReorderCollection}, {u2}, {None}, {k1}), o \in Orders}

Symmetry == Permutations(Requests)
=============================================================================
