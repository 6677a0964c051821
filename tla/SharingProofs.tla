--------------------------- MODULE SharingProofs ---------------------------
(***************************************************************************)
(* Proofs about Sharing, for any accounts, comics, collections, tags and   *)
(* calls: type correctness, that nothing dangles, and who may expose and   *)
(* change what.                                                            *)
(***************************************************************************)
EXTENDS Sharing, TLAPS

-----------------------------------------------------------------------------
(* What every script keeps to: a step that needs another one has it.       *)

AdminStep == {"claim", "unclaim", "hide", "unhide"}
CollStep == {"share", "cover", "discard", "end", "insert", "remove", "order"}
Has(s, steps) == \E i \in DOMAIN s : s[i] \in steps
Follows(s, step, before) ==
  \A i \in DOMAIN s : s[i] = step => i - 1 \in DOMAIN s /\ s[i - 1] = before
GoesOn(s, step) == \A i \in DOMAIN s : s[i] = step => i + 1 \in DOMAIN s
Fits(s) ==
  /\ Len(s) \in Nat \ {0} /\ DOMAIN s = 1..Len(s)
  /\ GoesOn(s, "end") /\ GoesOn(s, "file")
  /\ \A i \in DOMAIN s : s[i] = "seeTags" => i = 1 /\ 2 \in DOMAIN s
  /\ Follows(s, "upsert", "file") /\ Follows(s, "unlink", "drop")
  /\ Follows(s, "rename", "mayRename") /\ Follows(s, "drop", "mayDelete") /\ Follows(s, "insert", "end")
  /\ \A i \in DOMAIN s : s[i] \in CollStep => \E j \in 1..(i - 1) : s[j] = "own"

LEMMA ScriptsFit == \A s \in Scripts : Fits(s)
<1> USE DEF Fits, GoesOn, Follows, CollStep
<1>1. Fits(handleGetComic)
  BY DEF handleGetComic
<1>2. Fits(handleComicPage)
  BY DEF handleComicPage
<1>3. Fits(handleComicCover)
  BY DEF handleComicCover
<1>4. Fits(handleComicDownload)
  BY DEF handleComicDownload
<1>5. Fits(readComicPages)
  BY DEF readComicPages
<1>6. Fits(createDownloadLink)
  BY DEF createDownloadLink
<1>7. Fits(handleRenameComic)
  BY DEF handleRenameComic
<1>8. Fits(renameComic)
  BY DEF renameComic
<1>9. Fits(handleDeleteComic)
  BY DEF handleDeleteComic
<1>10. Fits(deleteComic)
  BY DEF deleteComic
<1>11. Fits(handleClaimComic)
  BY DEF handleClaimComic
<1>12. Fits(claimComic)
  BY DEF claimComic
<1>13. Fits(handleUnclaimComic)
  BY DEF handleUnclaimComic
<1>14. Fits(handleSetTags)
  BY DEF handleSetTags
<1>15. Fits(tagComics)
  BY DEF tagComics
<1>16. Fits(Adopt)
  BY DEF Adopt
<1>17. Fits(handleUploadComic)
  BY DEF handleUploadComic
<1>18. Fits(handleCreateCollection)
  BY DEF handleCreateCollection
<1>19. Fits(createCollection)
  BY DEF createCollection
<1>20. Fits(handleUpdateCollection)
  BY DEF handleUpdateCollection
<1>21. Fits(updateCollection)
  BY DEF updateCollection
<1>22. Fits(handleSetCollectionCover)
  BY DEF handleSetCollectionCover
<1>23. Fits(handleDeleteCollection)
  BY DEF handleDeleteCollection
<1>24. Fits(deleteCollection)
  BY DEF deleteCollection
<1>25. Fits(handleAddToCollection)
  BY DEF handleAddToCollection
<1>26. Fits(handleRemoveFromCollection)
  BY DEF handleRemoveFromCollection
<1>27. Fits(editCollectionComics)
  BY DEF editCollectionComics
<1>28. Fits(handleReorderCollection)
  BY DEF handleReorderCollection
<1>29. Fits(reorderCollection)
  BY DEF reorderCollection
<1>30. \A b \in BOOLEAN : Fits(setHidden(b)) /\ Fits(setComicHidden(b))
  <2>1. Fits(<<"see", "hide">>)
    OBVIOUS
  <2>2. Fits(<<"seeHidden", "unhide">>)
    OBVIOUS
  <2> QED BY <2>1, <2>2 DEF setHidden, setComicHidden
<1>31. Fits(Idle.op)
  BY DEF Idle
<1> HIDE DEF Fits
<1> QED
  BY <1>1, <1>2, <1>3, <1>4, <1>5, <1>6, <1>7, <1>8, <1>9, <1>10, <1>11, <1>12, <1>13, <1>14, <1>15,
     <1>16, <1>17, <1>18, <1>19, <1>20, <1>21, <1>22,
     <1>23, <1>24, <1>25, <1>26, <1>27, <1>28, <1>29, <1>30, <1>31
     DEF Scripts, OnComic, OfAdmins, OnColl, Flagged, Reordering, OnBoth

\* Only the calls of admins have a step that is theirs, and a call that adopts
\* a file names a comic.
Others ==
  OnComic \cup {handleSetTags, tagComics} \cup OnColl \cup Flagged \cup Reordering
  \cup OnBoth \cup {updateCollection, handleUploadComic, Adopt, Idle.op}

LEMMA ForAdmins == \A s \in Others : s \in Scripts /\ ~Has(s, AdminStep)
<1> USE DEF Has, AdminStep
<1>1. ~Has(handleGetComic, AdminStep)
  BY DEF handleGetComic
<1>2. ~Has(handleComicPage, AdminStep)
  BY DEF handleComicPage
<1>3. ~Has(handleComicCover, AdminStep)
  BY DEF handleComicCover
<1>4. ~Has(handleComicDownload, AdminStep)
  BY DEF handleComicDownload
<1>5. ~Has(readComicPages, AdminStep)
  BY DEF readComicPages
<1>6. ~Has(createDownloadLink, AdminStep)
  BY DEF createDownloadLink
<1>7. ~Has(handleRenameComic, AdminStep)
  BY DEF handleRenameComic
<1>8. ~Has(renameComic, AdminStep)
  BY DEF renameComic
<1>9. ~Has(handleDeleteComic, AdminStep)
  BY DEF handleDeleteComic
<1>10. ~Has(deleteComic, AdminStep)
  BY DEF deleteComic
<1>11. ~Has(handleSetTags, AdminStep)
  BY DEF handleSetTags
<1>12. ~Has(tagComics, AdminStep)
  BY DEF tagComics
<1>13. ~Has(Adopt, AdminStep)
  BY DEF Adopt
<1>14. ~Has(handleUploadComic, AdminStep)
  BY DEF handleUploadComic
<1>15. ~Has(handleCreateCollection, AdminStep)
  BY DEF handleCreateCollection
<1>16. ~Has(createCollection, AdminStep)
  BY DEF createCollection
<1>17. ~Has(handleUpdateCollection, AdminStep)
  BY DEF handleUpdateCollection
<1>18. ~Has(updateCollection, AdminStep)
  BY DEF updateCollection
<1>19. ~Has(handleSetCollectionCover, AdminStep)
  BY DEF handleSetCollectionCover
<1>20. ~Has(handleDeleteCollection, AdminStep)
  BY DEF handleDeleteCollection
<1>21. ~Has(deleteCollection, AdminStep)
  BY DEF deleteCollection
<1>22. ~Has(handleAddToCollection, AdminStep)
  BY DEF handleAddToCollection
<1>23. ~Has(handleRemoveFromCollection, AdminStep)
  BY DEF handleRemoveFromCollection
<1>24. ~Has(editCollectionComics, AdminStep)
  BY DEF editCollectionComics
<1>25. ~Has(handleReorderCollection, AdminStep)
  BY DEF handleReorderCollection
<1>26. ~Has(reorderCollection, AdminStep)
  BY DEF reorderCollection
<1>30. ~Has(Idle.op, AdminStep)
  BY DEF Idle
<1> HIDE DEF Has, AdminStep
<1> QED
  BY <1>1, <1>2, <1>3, <1>4, <1>5, <1>6, <1>7, <1>8, <1>9, <1>10, <1>11, <1>12, <1>13, <1>14, <1>15,
     <1>16, <1>17, <1>18, <1>19, <1>20, <1>21, <1>22, <1>23, <1>24, <1>25, <1>26, <1>30
     DEF Others, Scripts, OnComic, OnColl, Flagged, Reordering, OnBoth

LEMMA NoFile ==
  \A s \in OnColl \cup Flagged \cup Reordering \cup {updateCollection, Idle.op} : ~Has(s, {"file"})
<1> USE DEF Has
<1>1. ~Has(handleCreateCollection, {"file"})
  BY DEF handleCreateCollection
<1>2. ~Has(createCollection, {"file"})
  BY DEF createCollection
<1>3. ~Has(handleUpdateCollection, {"file"})
  BY DEF handleUpdateCollection
<1>4. ~Has(updateCollection, {"file"})
  BY DEF updateCollection
<1>5. ~Has(handleDeleteCollection, {"file"})
  BY DEF handleDeleteCollection
<1>6. ~Has(deleteCollection, {"file"})
  BY DEF deleteCollection
<1>7. ~Has(handleReorderCollection, {"file"})
  BY DEF handleReorderCollection
<1>8. ~Has(reorderCollection, {"file"})
  BY DEF reorderCollection
<1>9. ~Has(Idle.op, {"file"})
  BY DEF Idle
<1> HIDE DEF Has
<1> QED
  BY <1>1, <1>2, <1>3, <1>4, <1>5, <1>6, <1>7, <1>8, <1>9 DEF OnColl, Flagged, Reordering

-----------------------------------------------------------------------------
(* Calls keep to what they were asked for.                                 *)

\* A call is well formed, and has been asked by whom it takes.
Asked(q) ==
  /\ q \in Call /\ q.at \in DOMAIN q.op
  /\ q.op # Idle.op => q.user \in Users
  /\ Has(q.op, AdminStep) => q.user \in Admins
  /\ Has(q.op, {"file"}) => q.comic \in Comics

LEMMA CallFacts ==
  ASSUME NEW q \in Call
  PROVE  /\ q.op \in Scripts /\ Fits(q.op) /\ Len(q.op) \in Nat \ {0}
         /\ DOMAIN q.op = 1..Len(q.op) /\ q.at \in Nat \ {0}
BY ScriptsFit DEF Call, Fits

LEMMA Distinct ==
  /\ None # Gone
  /\ None \notin Users /\ None \notin Comics /\ None \notin Colls /\ None \notin Row /\ None \notin Coll
  /\ Gone \notin Users /\ Gone \notin Comics /\ Gone \notin Colls /\ Gone \notin Row /\ Gone \notin Coll
BY SharingAssumption DEF SharingAssumption

LEMMA IdleAsked == Asked(Idle)
<1>1. Idle \in Call
  BY DEF Idle, Call, Scripts
<1>2. Idle.op # Idle.op \/ 1 \in DOMAIN Idle.op
  BY <1>1, CallFacts
<1>3. ~Has(Idle.op, {"file"})
  BY NoFile
<1>4. ~Has(Idle.op, AdminStep)
  BY ForAdmins DEF Others
<1> QED
  BY <1>1, <1>2, <1>3, <1>4 DEF Asked, Idle

Fresh(q) == Asked(q) /\ q.at = 1

\* What a new call is made of.
LEMMA OfAsked ==
  ASSUME NEW op \in Scripts, NEW u \in Users, NEW c \in Comics \cup {None}, NEW k \in Colls \cup {None},
         Has(op, AdminStep) => u \in Admins, Has(op, {"file"}) => c \in Comics
  PROVE  Fresh(Of(op, u, c, k))
<1> DEFINE q == Of(op, u, c, k)
<1>1. Idle \in Call /\ Idle.at = 1
  BY IdleAsked DEF Asked, Idle
<1>2. q \in Call /\ q.op = op /\ q.at = 1 /\ q.user = u /\ q.comic = c
  BY <1>1 DEF Of, Call
<1>3. 1 \in DOMAIN q.op
  BY <1>2, CallFacts
<1> QED BY <1>2, <1>3 DEF Fresh, Asked

LEMMA GivenTags ==
  ASSUME NEW q, Fresh(q), NEW a \in SUBSET Tags
  PROVE  Fresh([q EXCEPT !.add = a])
<1>1. [q EXCEPT !.add = a] \in Call
  BY DEF Fresh, Asked, Call
<1> QED BY <1>1 DEF Fresh, Asked, Call

LEMMA GivenRetag ==
  ASSUME NEW q, Fresh(q), NEW a \in SUBSET Tags, NEW x \in SUBSET Tags
  PROVE  Fresh(Retagging(q, a, x))
<1> USE DEF Retagging
<1>1. Retagging(q, a, x) \in Call
  BY DEF Fresh, Asked, Call
<1> QED BY <1>1 DEF Fresh, Asked, Call

LEMMA GivenFlag ==
  ASSUME NEW q, Fresh(q), NEW b \in BOOLEAN
  PROVE  Fresh([q EXCEPT !.flag = b])
<1>1. [q EXCEPT !.flag = b] \in Call
  BY DEF Fresh, Asked, Call
<1> QED BY <1>1 DEF Fresh, Asked, Call

LEMMA GivenOrder ==
  ASSUME NEW q, Fresh(q), NEW o \in Orders
  PROVE  Fresh([q EXCEPT !.order = o])
<1>1. [q EXCEPT !.order = o] \in Call
  BY DEF Fresh, Asked, Call
<1> QED BY <1>1 DEF Fresh, Asked, Call

\* What a set of new calls is made of.
LEMMA OnAsked ==
  ASSUME NEW ops, NEW us \in SUBSET Users, NEW cs \in SUBSET (Comics \cup {None}),
         NEW ks \in SUBSET (Colls \cup {None}),
         \A op \in ops : /\ op \in Scripts
                         /\ Has(op, AdminStep) => us \subseteq Admins
                         /\ Has(op, {"file"}) => cs \subseteq Comics
  PROVE  \A q \in CallsOn(ops, us, cs, ks) : Fresh(q)
<1> SUFFICES ASSUME NEW op \in ops, NEW u \in us, NEW c \in cs, NEW k \in ks
             PROVE  Fresh(Of(op, u, c, k))
  BY DEF CallsOn
<1> QED BY OfAsked

LEMMA AsksAsked == \A q \in Asks : Fresh(q)
<1>0. Admins \subseteq Users
  BY SharingAssumption DEF SharingAssumption
<1>1. \A q \in CallsOn(OnComic \cup {Adopt}, Users, Comics, {None}) : Fresh(q)
  <2>1. \A op \in OnComic \cup {Adopt} : op \in Others
    BY DEF Others
  <2> QED BY <2>1, ForAdmins, OnAsked
<1>2. \A q \in CallsOn(OfAdmins, Admins, Comics, {None}) : Fresh(q)
  <2>1. \A op \in OfAdmins : op \in Scripts
    BY DEF Scripts
  <2> QED BY <1>0, <2>1, OnAsked
<1>3. \A q \in CallsOn({handleSetTags}, Users, Comics, {None})
             \cup CallsOn({tagComics}, Users, Comics, {None}) : Fresh(q)
  <2>1. handleSetTags \in Others /\ tagComics \in Others
    BY DEF Others
  <2>2. \A q \in CallsOn({handleSetTags}, Users, Comics, {None}) : Fresh(q)
    BY <2>1, ForAdmins, OnAsked
  <2>3. \A q \in CallsOn({tagComics}, Users, Comics, {None}) : Fresh(q)
    BY <2>1, ForAdmins, OnAsked
  <2> QED BY <2>2, <2>3
<1>4. \A q \in CallsOn(OnBoth \cup {handleUploadComic}, Users, Comics, Colls) : Fresh(q)
  <2>1. \A op \in OnBoth \cup {handleUploadComic} : op \in Others
    BY DEF Others
  <2> QED BY <2>1, ForAdmins, OnAsked
<1>5. \A q \in CallsOn({updateCollection}, Users, Comics, Colls) : Fresh(q)
  <2>1. updateCollection \in Others
    BY DEF Others
  <2> QED BY <2>1, ForAdmins, OnAsked
<1>6. \A q \in CallsOn(OnColl, Users, {None}, Colls) : Fresh(q)
  <2>1. \A op \in OnColl : op \in Others /\ ~Has(op, {"file"})
    BY NoFile DEF Others
  <2> QED BY <2>1, ForAdmins, OnAsked
<1>7. \A q \in CallsOn(Flagged, Users, {None}, Colls) : Fresh(q)
  <2>1. \A op \in Flagged : op \in Others /\ ~Has(op, {"file"})
    BY NoFile DEF Others
  <2> QED BY <2>1, ForAdmins, OnAsked
<1>8. \A q \in CallsOn(Reordering, Users, {None}, Colls) : Fresh(q)
  <2>1. \A op \in Reordering : op \in Others /\ ~Has(op, {"file"})
    BY NoFile DEF Others
  <2> QED BY <2>1, ForAdmins, OnAsked
<1> DEFINE Tagging == {[q EXCEPT !.add = a] :
            q \in CallsOn({handleSetTags}, Users, Comics, {None}), a \in SUBSET Tags}
           Retaggings == {Retagging(q, a, x) :
            q \in CallsOn({tagComics}, Users, Comics, {None}), a \in SUBSET Tags, x \in SUBSET Tags}
           Flagging == {[q EXCEPT !.flag = b] :
            q \in CallsOn(Flagged, Users, {None}, Colls)
                  \cup CallsOn({updateCollection}, Users, Comics, Colls), b \in BOOLEAN}
           Ordering == {[q EXCEPT !.order = o] : q \in CallsOn(Reordering, Users, {None}, Colls), o \in Orders}
<1>9. Calls = CallsOn(OnComic \cup {Adopt}, Users, Comics, {None})
              \cup CallsOn(OfAdmins, Admins, Comics, {None})
              \cup Tagging
              \cup Retaggings
              \cup CallsOn(OnBoth \cup {handleUploadComic}, Users, Comics, Colls)
              \cup CallsOn(OnColl, Users, {None}, Colls)
              \cup Flagging
              \cup Ordering
  BY DEF Calls
<1>10. \A q \in Tagging : Fresh(q)
  BY <1>3, GivenTags
<1>11. \A q \in Retaggings : Fresh(q)
  BY <1>3, GivenRetag
<1>12. \A q \in Flagging : Fresh(q)
  BY <1>5, <1>7, GivenFlag
<1>13. \A q \in Ordering : Fresh(q)
  BY <1>8, GivenOrder
<1> HIDE DEF Tagging, Retaggings, Flagging, Ordering
<1> QED
  BY <1>1, <1>2, <1>4, <1>6, <1>9, <1>10, <1>11, <1>12, <1>13, AsksAssumption DEF AsksAssumption

-----------------------------------------------------------------------------
(* The inductive invariant.  A check that has passed stays good: an account *)
(* keeps the collections it owns, a comic its uploader, and what is gone   *)
(* does not come back.                                                     *)

Stored ==
  /\ users \subseteq Users
  /\ comics \in [Comics -> Row \cup {None, Gone}]
  /\ colls \in [Colls -> Coll \cup {None, Gone}]
  /\ place \in [Colls -> [Comics -> Nat \cup {None}]]
  /\ tags \in [Users -> [Comics -> SUBSET Tags]]
  /\ links \subseteq Users \X Comics
  /\ files \subseteq Comics
Bounded == calls \in 0..MaxCalls /\ raced \subseteq Requests /\ muddled \subseteq Colls
Asking == req \in [Requests -> Call] /\ \A r \in Requests : Asked(req[r])

\* Only an admin has claimed what is claimed.
Linked ==
  /\ NothingDangles
  /\ \A c \in Comics : Here(c) /\ comics[c].source = "claimed" => comics[c].owner \in Admins

\* The parts of NothingDangles.
ComicsHold == \A c \in Comics : Here(c) =>
  /\ comics[c].owner \in users \cup {None}
  /\ (comics[c].owner = None) = (comics[c].source \in ServerWide)
  /\ comics[c].source \in {"upload", "converted"} => c \in files
CollsHold == \A k \in Colls : Live(k) =>
  colls[k].owner \in users /\ (colls[k].cover # None => Here(colls[k].cover))
PlacesHold == \A k \in Colls, c \in Comics : place[k][c] # None => Live(k) /\ Here(c)
TagsHold == \A u \in Users, c \in Comics : tags[u][c] # {} => u \in users /\ Here(c)
LinksHold == \A l \in links : l[1] \in users /\ Here(l[2])
LEMMA Parts ==
  /\ NothingDangles <=> ComicsHold /\ CollsHold /\ PlacesHold /\ TagsHold /\ LinksHold
  /\ NothingDangles' <=> ComicsHold' /\ CollsHold' /\ PlacesHold' /\ TagsHold' /\ LinksHold'
BY DEF NothingDangles, ComicsHold, CollsHold, PlacesHold, TagsHold, LinksHold

Step(q) == q.op[q.at]
OwnedIn(q, cl) ==
  q.coll \in Colls /\ (cl[q.coll] = Gone \/ (cl[q.coll] \in Coll /\ cl[q.coll].owner = q.user))
OwnsIn(q, cl) == \A i \in 1..(q.at - 1) : q.op[i] = "own" => OwnedIn(q, cl)
FilingIn(q, cm, fl) == q.comic \in Comics /\ cm[q.comic] = None /\ q.comic \in fl
MineIn(q, cm) ==
  q.comic \in Comics /\ (cm[q.comic] = Gone \/
    (cm[q.comic] \in Row /\ (cm[q.comic].owner = q.user \/ q.user \in Admins)))
DroppedIn(q, cm) == q.comic \in Comics /\ cm[q.comic] = Gone
ReadyIn(q, cm, fl) ==
  /\ Step(q) = "upsert" => FilingIn(q, cm, fl)
  /\ Step(q) = "unlink" => DroppedIn(q, cm)
  /\ Step(q) \in {"rename", "drop"} => MineIn(q, cm)
Checked == \A r \in Requests : OwnsIn(req[r], colls) /\ ReadyIn(req[r], comics, files)
OneFiler ==
  \A r, s \in Requests : At(r, "upsert") /\ At(s, "upsert") /\ req[r].comic = req[s].comic => r = s

IInv == Stored /\ Bounded /\ Asking /\ Linked /\ Checked /\ OneFiler

\* What the step a call is at must leave behind for the call to go on.
DoneIn(q, cm, cl, fl) ==
  /\ Step(q) = "own" => OwnedIn(q, cl)
  /\ Step(q) = "file" => FilingIn(q, cm, fl)
  /\ Step(q) = "drop" => DroppedIn(q, cm)
  /\ Step(q) \in {"mayRename", "mayDelete"} => MineIn(q, cm)

LEMMA AdvancedOK ==
  ASSUME NEW r \in Requests, NEW cm, NEW cl, NEW fl, Asked(req[r]), OwnsIn(req[r], cl),
         DoneIn(req[r], cm, cl, fl)
  PROVE  /\ Asked(Advanced(r)) /\ OwnsIn(Advanced(r), cl) /\ ReadyIn(Advanced(r), cm, fl)
         /\ Step(Advanced(r)) = "upsert" => Step(req[r]) = "file"
<1> DEFINE q == req[r]
<1>0. q \in Call /\ q.at \in 1..Len(q.op) /\ Fits(q.op) /\ Len(q.op) \in Nat \ {0} /\ q.op \in Scripts
      /\ DOMAIN q.op = 1..Len(q.op)
  BY CallFacts DEF Asked
<1>1. CASE q.at = Len(q.op)
  <2>1. Advanced(r) = Idle
    BY <1>1 DEF Advanced
  <2>2. Step(Idle) = "idle" /\ Idle.at = 1
    BY DEF Step, Idle
  <2> QED BY <2>1, <2>2, IdleAsked DEF OwnsIn, ReadyIn
<1>2. CASE q.at # Len(q.op)
  <2> DEFINE a == [q EXCEPT !.at = @ + 1]
  <2>1. Advanced(r) = a
    BY <1>2 DEF Advanced
  <2>2. a \in Call /\ a.at = q.at + 1 /\ a.op = q.op /\ a.user = q.user /\ a.comic = q.comic /\ a.coll = q.coll
    BY <1>0 DEF Call
  <2>3. a.at \in DOMAIN q.op /\ a.at - 1 = q.at
    BY <1>0, <1>2, <2>2
  <2> HIDE DEF a
  <2>4. Asked(a)
    BY <2>2, <2>3 DEF Asked
  <2>5. OwnsIn(a, cl)
    <3> SUFFICES ASSUME NEW i \in 1..(a.at - 1), a.op[i] = "own" PROVE OwnedIn(a, cl)
      BY DEF OwnsIn
    <3>1. OwnedIn(q, cl)
      <4>1. CASE i = q.at
        BY <4>1, <2>2 DEF DoneIn, Step
      <4>2. CASE i # q.at
        <5>1. i \in 1..(q.at - 1) /\ q.op[i] = "own"
          BY <4>2, <2>2, <2>3, <1>0
        <5> QED BY <5>1 DEF OwnsIn
      <4> QED BY <4>1, <4>2
    <3> QED BY <3>1, <2>2 DEF OwnedIn
  <2>6. /\ Step(a) = "upsert" => Step(q) = "file"
        /\ Step(a) = "unlink" => Step(q) = "drop"
        /\ Step(a) = "rename" => Step(q) = "mayRename"
        /\ Step(a) = "drop" => Step(q) = "mayDelete"
    BY <1>0, <2>2, <2>3 DEF Step, Fits, Follows
  <2>7. ReadyIn(a, cm, fl)
    BY <2>2, <2>6 DEF ReadyIn, DoneIn, FilingIn, DroppedIn, MineIn
  <2> QED BY <2>1, <2>4, <2>5, <2>6, <2>7
<1> QED BY <1>1, <1>2

-----------------------------------------------------------------------------
(* What the tables may become, and what then stays true of a call.         *)

Evolves ==
  /\ \A c \in Comics :
       /\ comics[c] = Gone => comics'[c] = Gone
       /\ comics[c] \in Row =>
            \/ comics'[c] = Gone
            \/ /\ comics'[c] \in Row
               /\ comics'[c].owner = comics[c].owner \/ comics[c].owner \in Admins \cup {None}
  /\ \A k \in Colls :
       /\ colls[k] = Gone => colls'[k] = Gone
       /\ colls[k] \in Coll =>
            colls'[k] = Gone \/ (colls'[k] \in Coll /\ colls'[k].owner = colls[k].owner)
LeavesFiled(s) == FilingIn(req[s], comics, files) => FilingIn(req[s], comics', files')

LEMMA OwnsStays ==
  ASSUME NEW q \in Call, OwnsIn(q, colls), Evolves
  PROVE  OwnsIn(q, colls')
BY DEF OwnsIn, OwnedIn, Evolves

LEMMA ReadyStays ==
  ASSUME NEW s \in Requests, Asked(req[s]), ReadyIn(req[s], comics, files), Evolves,
         At(s, "upsert") => LeavesFiled(s)
  PROVE  ReadyIn(req[s], comics', files')
<1> DEFINE q == req[s]
<1>1. Step(q) = "upsert" => FilingIn(q, comics', files')
  BY DEF ReadyIn, LeavesFiled, At, Step
<1>2. Step(q) = "unlink" => DroppedIn(q, comics')
  BY DEF ReadyIn, DroppedIn, Evolves
<1>3. Step(q) \in {"rename", "drop"} => MineIn(q, comics')
  <2>1. q.op # Idle.op \/ Step(q) = "idle"
    <3>1. DOMAIN Idle.op = 1..1 /\ Idle.op[1] = "idle"
      BY DEF Idle
    <3>2. q.at \in DOMAIN q.op
      BY DEF Asked
    <3> QED BY <3>1, <3>2 DEF Step
  <2>2. Step(q) \in {"rename", "drop"} => q.user \in Users
    BY <2>1 DEF Asked
  <2>3. None \notin Users
    BY Distinct
  <2> QED BY <2>2, <2>3 DEF ReadyIn, MineIn, Evolves
<1> QED BY <1>1, <1>2, <1>3 DEF ReadyIn

\* A call moves to q, and the others stay where they are.
LEMMA OneMoves ==
  ASSUME IInv, Evolves, NEW r \in Requests, NEW q, req' = [req EXCEPT ![r] = q],
         Asked(q), OwnsIn(q, colls'), ReadyIn(q, comics', files'),
         \A s \in Requests \ {r} : At(s, "upsert") => LeavesFiled(s),
         Step(q) = "upsert" => \A s \in Requests \ {r} : At(s, "upsert") => req[s].comic # q.comic
  PROVE  Asking' /\ Checked' /\ OneFiler'
<1>1. /\ req' \in [Requests -> Call] /\ req'[r] = q
      /\ \A s \in Requests \ {r} : req'[s] = req[s]
  BY DEF IInv, Asking, Asked
<1>2. Asking'
  <2> SUFFICES ASSUME NEW s \in Requests PROVE Asked(req[s])'
    BY <1>1 DEF Asking
  <2>1. Asked(req'[s])
    BY <1>1 DEF IInv, Asking
  <2> QED BY <2>1 DEF Asked
<1>3. Checked'
  <2> SUFFICES ASSUME NEW s \in Requests
               PROVE  OwnsIn(req'[s], colls') /\ ReadyIn(req'[s], comics', files')
    BY DEF Checked, OwnsIn, OwnedIn, ReadyIn, FilingIn, DroppedIn, MineIn, Step
  <2>1. CASE s = r
    BY <2>1, <1>1
  <2>2. CASE s # r
    <3>1. OwnsIn(req[s], colls) /\ ReadyIn(req[s], comics, files) /\ Asked(req[s]) /\ req[s] \in Call
      BY DEF IInv, Checked, Asking
    <3> QED BY <3>1, <2>2, <1>1, OwnsStays, ReadyStays
  <2> QED BY <2>1, <2>2
<1>4. OneFiler'
  BY <1>1 DEF IInv, OneFiler, At, Step
<1> QED BY <1>2, <1>3, <1>4

LEMMA NoneMoves ==
  ASSUME IInv, Evolves, req' = req, \A s \in Requests : At(s, "upsert") => LeavesFiled(s)
  PROVE  Asking' /\ Checked' /\ OneFiler'
<1>1. Asking' /\ OneFiler'
  BY DEF IInv, Asking, OneFiler, At
<1>2. Checked'
  <2> SUFFICES ASSUME NEW s \in Requests
               PROVE  OwnsIn(req[s], colls') /\ ReadyIn(req[s], comics', files')
    BY DEF Checked, OwnsIn, OwnedIn, ReadyIn, FilingIn, DroppedIn, MineIn, Step
  <2>1. OwnsIn(req[s], colls) /\ ReadyIn(req[s], comics, files) /\ Asked(req[s]) /\ req[s] \in Call
    BY DEF IInv, Checked, Asking
  <2> QED BY <2>1, OwnsStays, ReadyStays
<1> QED BY <1>1, <1>2

-----------------------------------------------------------------------------
(* Steps that write nothing: checks, and reads.                            *)

LEMMA RowsStay ==
  ASSUME Stored, Linked, UNCHANGED <<rows, files>>
  PROVE  /\ Stored' /\ Linked' /\ Evolves
         /\ \A s \in Requests : LeavesFiled(s)
<1>1. /\ users' = users /\ comics' = comics /\ colls' = colls /\ place' = place
      /\ tags' = tags /\ links' = links /\ files' = files
  BY DEF rows
<1>2. Stored' /\ Evolves
  BY <1>1 DEF Stored, Evolves
<1>3. Linked'
  BY <1>1 DEF Linked, NothingDangles, Here, Live
<1>4. \A s \in Requests : LeavesFiled(s)
  BY <1>1 DEF LeavesFiled, FilingIn
<1> QED BY <1>2, <1>3, <1>4

\* A call that goes on as q, or ends.
LEMMA QuietStep ==
  ASSUME IInv, NEW r \in Requests, NEW q, req' = [req EXCEPT ![r] = q], UNCHANGED <<rows, files>>,
         Asked(q), OwnsIn(q, colls), ReadyIn(q, comics, files), Step(q) # "upsert"
  PROVE  Stored' /\ Linked' /\ Asking' /\ Checked' /\ OneFiler'
<1>1. Stored' /\ Linked' /\ Evolves /\ \A s \in Requests : LeavesFiled(s)
  BY RowsStay DEF IInv
<1>2. colls' = colls /\ comics' = comics /\ files' = files
  BY DEF rows
<1> QED BY <1>1, <1>2, OneMoves

LEMMA IdleQuiet ==
  Asked(Idle) /\ Step(Idle) = "idle" /\ \A cm, cl, fl : OwnsIn(Idle, cl) /\ ReadyIn(Idle, cm, fl)
<1>1. Step(Idle) = "idle" /\ Idle.at = 1
  BY DEF Step, Idle
<1> QED BY <1>1, IdleAsked DEF OwnsIn, ReadyIn

\* What is true of a request under way.
LEMMA UnderWay ==
  ASSUME IInv, NEW r \in Requests
  PROVE  /\ Asked(req[r]) /\ req[r] \in Call /\ OwnsIn(req[r], colls) /\ ReadyIn(req[r], comics, files)
         /\ req[r].at \in DOMAIN req[r].op /\ Fits(req[r].op) /\ DOMAIN req[r].op = 1..Len(req[r].op)
         /\ \A step : At(r, step) <=> Step(req[r]) = step
<1>1. Asked(req[r]) /\ req[r] \in Call /\ OwnsIn(req[r], colls) /\ ReadyIn(req[r], comics, files)
  BY DEF IInv, Asking, Checked
<1> QED BY <1>1, CallFacts DEF Asked, At, Step

LEMMA QueryStep ==
  ASSUME IInv, NEW r \in Requests, NEW step, NEW ok, Query(r, step, ok),
         step \notin {"file", "drop"},
         ok => DoneIn(req[r], comics, colls, files)
  PROVE  Stored' /\ Linked' /\ Asking' /\ Checked' /\ OneFiler'
<1>1. At(r, step) /\ Checks(r, ok) /\ UNCHANGED <<rows, files>>
  BY DEF Query
<1>2. CASE ok
  <2>1. req' = [req EXCEPT ![r] = Advanced(r)]
    BY <1>1, <1>2 DEF Checks, Passes
  <2>2. /\ Asked(Advanced(r)) /\ OwnsIn(Advanced(r), colls) /\ ReadyIn(Advanced(r), comics, files)
        /\ Step(Advanced(r)) # "upsert"
    BY <1>1, <1>2, UnderWay, AdvancedOK DEF At, Step
  <2> QED BY <1>1, <2>1, <2>2, QuietStep
<1>3. CASE ~ok
  <2>1. req' = [req EXCEPT ![r] = Idle]
    BY <1>1, <1>3 DEF Checks, Ends
  <2> QED BY <1>1, <2>1, IdleQuiet, QuietStep
<1> QED BY <1>2, <1>3

Retold(q, n, m) == [q EXCEPT !.at = n, !.add = m]
Ended(q, n, p) == [q EXCEPT !.at = n, !.end = p]
Onward(q) == [q EXCEPT !.at = @ + 1]

LEMMA RetoldIs ==
  ASSUME NEW q \in Call, NEW n \in Nat \ {0}, NEW m \in SUBSET Tags
  PROVE  /\ Retold(q, n, m) \in Call /\ Retold(q, n, m).at = n /\ Retold(q, n, m).op = q.op
         /\ Retold(q, n, m).user = q.user /\ Retold(q, n, m).comic = q.comic
<1>1. Retold(q, n, m) \in Call
  BY DEF Call, Retold
<1> QED BY <1>1 DEF Call, Retold

LEMMA EndedIs ==
  ASSUME NEW q \in Call, NEW n \in Nat \ {0}, NEW p \in Nat
  PROVE  /\ Ended(q, n, p) \in Call /\ Ended(q, n, p).at = n /\ Ended(q, n, p).op = q.op
         /\ Ended(q, n, p).user = q.user /\ Ended(q, n, p).comic = q.comic /\ Ended(q, n, p).coll = q.coll
<1>1. Ended(q, n, p) \in Call
  BY DEF Call, Ended
<1> QED BY <1>1 DEF Call, Ended

LEMMA OnwardIs ==
  ASSUME NEW q \in Call
  PROVE  /\ Onward(q).at = q.at + 1 /\ Onward(q).op = q.op
         /\ Onward(q).user = q.user /\ Onward(q).comic = q.comic /\ Onward(q).coll = q.coll
BY DEF Call, Onward

LEMMA SeesTagsKeeps ==
  ASSUME IInv, NEW r \in Requests, SeesTags(r)
  PROVE  Stored' /\ Linked' /\ Asking' /\ Checked' /\ OneFiler'
<1> DEFINE q == req[r]
           m == Merged(tags[q.user][q.comic], q.add, q.cut)
<1>1. Step(q) = "seeTags" /\ UNCHANGED <<rows, files>>
  BY DEF SeesTags, At, Step
<1>2. CASE Sees(q.user, q.comic)
  <2> DEFINE a == Retold(q, 2, m)
  <2>2. req' = [req EXCEPT ![r] = a]
    BY <1>2 DEF SeesTags, Retold
  <2>3. q.op # Idle.op
    <3>1. DOMAIN Idle.op = 1..1 /\ Idle.op[1] = "idle"
      BY DEF Idle
    <3> QED BY <1>1, <3>1, UnderWay DEF Step
  <2>4. q.user \in Users /\ q.comic \in Comics /\ q.add \in SUBSET Tags
    BY <1>2, <2>3, UnderWay DEF Sees, SeesHidden, Here, Call, Asked
  <2>5. m \in SUBSET Tags
    BY <2>4 DEF IInv, Stored, Merged
  <2>6. q.at = 1 /\ 2 \in DOMAIN q.op
    BY <1>1, UnderWay DEF Fits, Step
  <2>7. a \in Call /\ a.at = 2 /\ a.op = q.op /\ a.user = q.user /\ a.comic = q.comic
    BY <2>5, UnderWay, RetoldIs
  <2> HIDE DEF a
  <2>8. Asked(a)
    BY <2>6, <2>7, UnderWay DEF Asked
  <2>9. q.op[1] = "seeTags"
    BY <1>1, <2>6 DEF Step
  <2>10. OwnsIn(a, colls)
    BY <2>7, <2>9 DEF OwnsIn
  <2>11. q.op[2] \notin {"upsert", "unlink", "rename", "drop"}
    <3>1. \A s, step, before : Follows(s, step, before) /\ 2 \in DOMAIN s /\ s[2] = step => s[1] = before
      BY DEF Follows
    <3> QED BY <2>6, <2>9, <3>1, UnderWay DEF Fits
  <2>12. ReadyIn(a, comics, files) /\ Step(a) # "upsert"
    BY <2>7, <2>11 DEF ReadyIn, Step
  <2> QED BY <1>1, <2>2, <2>8, <2>10, <2>12, QuietStep
<1>3. CASE ~Sees(q.user, q.comic)
  <2>1. req' = [req EXCEPT ![r] = Idle]
    BY <1>3 DEF SeesTags, Ends
  <2> QED BY <1>1, <2>1, IdleQuiet, QuietStep
<1> QED BY <1>2, <1>3

LEMMA FindsEndKeeps ==
  ASSUME IInv, NEW r \in Requests, FindsEnd(r)
  PROVE  Stored' /\ Linked' /\ Asking' /\ Checked' /\ OneFiler'
<1> DEFINE q == req[r]
<1>1. Step(q) = "end" /\ UNCHANGED <<rows, files>>
  BY DEF FindsEnd, At, Step
<1>2. PICK p \in EndOf(q.coll) : req' = [req EXCEPT ![r] = [req[r] EXCEPT !.at = @ + 1, !.end = p]]
  BY DEF FindsEnd
<1>3. p \in Nat
  BY SharingAssumption DEF EndOf, SharingAssumption
<1>4. q.at + 1 \in DOMAIN q.op /\ q.at \in Nat /\ Len(q.op) \in Nat
  BY <1>1, UnderWay, CallFacts DEF Fits, GoesOn, Step
<1>5. PICK n \in Nat \ {0} : n = q.at + 1
  BY <1>4
<1> DEFINE a == Ended(q, n, p)
           b == Onward(q)
<1>6. req' = [req EXCEPT ![r] = a]
  BY <1>2, <1>5 DEF IInv, Asking, Ended
<1>7. Advanced(r) = b
  BY <1>4, UnderWay DEF Advanced, Onward
<1>9. Asked(b) /\ OwnsIn(b, colls) /\ ReadyIn(b, comics, files) /\ Step(b) # "upsert"
  <2>1. DoneIn(q, comics, colls, files)
    BY <1>1 DEF DoneIn
  <2> HIDE DEF b
  <2> QED BY <1>1, <1>7, <2>1, UnderWay, AdvancedOK
<1>10. /\ a \in Call /\ a.at = q.at + 1 /\ a.op = q.op /\ a.user = q.user /\ a.comic = q.comic /\ a.coll = q.coll
       /\ b.at = q.at + 1 /\ b.op = q.op /\ b.user = q.user /\ b.comic = q.comic /\ b.coll = q.coll
  <2>2. q \in Call
    BY UnderWay
  <2>3. /\ a \in Call /\ a.at = n /\ a.op = q.op /\ a.user = q.user
        /\ a.comic = q.comic /\ a.coll = q.coll
    BY <1>3, <2>2, EndedIs
  <2>4. b.at = q.at + 1 /\ b.op = q.op /\ b.user = q.user /\ b.comic = q.comic /\ b.coll = q.coll
    BY <2>2, OnwardIs
  <2> QED BY <1>5, <2>3, <2>4
<1> HIDE DEF a, b
<1>11. Asked(a) /\ OwnsIn(a, colls) /\ ReadyIn(a, comics, files) /\ Step(a) # "upsert"
  BY <1>9, <1>10 DEF Asked, OwnsIn, OwnedIn, ReadyIn, FilingIn, DroppedIn, MineIn, Step
<1> QED BY <1>1, <1>6, <1>11, QuietStep

LEMMA CheckingKeeps ==
  ASSUME IInv, NEW r \in Requests, Checking(r)
  PROVE  Stored' /\ Linked' /\ Asking' /\ Checked' /\ OneFiler' /\ muddled' = muddled
<1> USE DEF DoneIn, At, Step
<1>0. muddled' = muddled
  BY DEF Checking, GetComic, GetComicWithHidden, OwnedCollection, DownloadToken, ComicRowByID,
     SeesTags, FindsEnd, Opens, Query
<1>1. CASE GetComic(r)
  BY <1>0, <1>1, QueryStep DEF GetComic, Query
<1>2. CASE GetComicWithHidden(r)
  BY <1>0, <1>2, QueryStep DEF GetComicWithHidden, Query
<1>3. CASE OwnedCollection(r)
  <2>1. Owns(req[r].user, req[r].coll) => OwnedIn(req[r], colls)
    BY DEF Owns, Live, OwnedIn, IInv, Stored
  <2> QED BY <1>0, <1>3, <2>1, QueryStep DEF OwnedCollection, Query
<1>4. CASE DownloadToken(r)
  BY <1>0, <1>4, QueryStep DEF DownloadToken, Query
<1>5. CASE ComicRowByID(r)
  <2> DEFINE q == req[r]
  <2>1. CASE Query(r, "row", Here(q.comic))
    BY <1>0, <2>1, QueryStep DEF Query
  <2>2. CASE Query(r, "mayRename", Here(q.comic) /\ MayRename(q.user, comics[q.comic]))
    <3>1. Here(q.comic) /\ MayRename(q.user, comics[q.comic]) => MineIn(q, comics)
      BY DEF Here, MayRename, MineIn, IInv, Stored
    <3> QED BY <1>0, <2>2, <3>1, QueryStep DEF Query
  <2>3. CASE Query(r, "mayDelete", Here(q.comic) /\ MayDelete(q.user, comics[q.comic]))
    <3>1. Here(q.comic) /\ MayDelete(q.user, comics[q.comic]) => MineIn(q, comics)
      BY DEF Here, MayDelete, MineIn, IInv, Stored
    <3> QED BY <1>0, <2>3, <3>1, QueryStep DEF Query
  <2> QED BY <1>5, <2>1, <2>2, <2>3 DEF ComicRowByID
<1>6. CASE SeesTags(r)
  BY <1>0, <1>6, SeesTagsKeeps
<1>7. CASE FindsEnd(r)
  BY <1>0, <1>7, FindsEndKeeps
<1>8. CASE Opens(r)
  <2>1. req' = [req EXCEPT ![r] = Idle] /\ UNCHANGED <<rows, files>>
    BY <1>8 DEF Opens, Ends
  <2> QED BY <1>0, <2>1, IdleQuiet, QuietStep
<1> QED BY <1>1, <1>2, <1>3, <1>4, <1>5, <1>6, <1>7, <1>8 DEF Checking

-----------------------------------------------------------------------------
(* Writes on a comic.                                                      *)

LEMMA PassesKeeps ==
  ASSUME IInv, NEW r \in Requests, Passes(r), Evolves, DoneIn(req[r], comics', colls', files'),
         Step(req[r]) # "file", \A s \in Requests \ {r} : At(s, "upsert") => LeavesFiled(s)
  PROVE  Asking' /\ Checked' /\ OneFiler'
<1>1. Asked(req[r]) /\ OwnsIn(req[r], colls')
  BY UnderWay, OwnsStays
<1>2. /\ Asked(Advanced(r)) /\ OwnsIn(Advanced(r), colls') /\ ReadyIn(Advanced(r), comics', files')
      /\ Step(Advanced(r)) # "upsert"
  BY <1>1, AdvancedOK
<1> QED BY <1>2, OneMoves DEF Passes

LEMMA EndsKeeps ==
  ASSUME IInv, NEW r \in Requests, Ends(r), Evolves,
         \A s \in Requests \ {r} : At(s, "upsert") => LeavesFiled(s)
  PROVE  Asking' /\ Checked' /\ OneFiler'
BY IdleQuiet, OneMoves DEF Ends

\* A row of comics that an UPDATE may leave.
Fitting(row, c) ==
  /\ row \in Row
  /\ row.owner = comics[c].owner \/ comics[c].owner \in Admins \cup {None}
  /\ row.owner \in users \cup {None}
  /\ (row.owner = None) = (row.source \in ServerWide)
  /\ row.source \in {"upload", "converted"} => c \in files
  /\ row.source = "claimed" => row.owner \in Admins

LEMMA RowKeeps ==
  ASSUME IInv, NEW c \in Comics, Here(c), NEW row, Fitting(row, c), comics' = [comics EXCEPT ![c] = row],
         UNCHANGED <<users, colls, place, tags, links, files>>
  PROVE  Stored' /\ Linked' /\ Evolves /\ \A s \in Requests : LeavesFiled(s)
<1>1. /\ comics' \in [Comics -> Row \cup {None, Gone}] /\ comics'[c] = row /\ row \in Row
      /\ \A d \in Comics \ {c} : comics'[d] = comics[d]
  BY DEF IInv, Stored, Fitting
<1>2. comics[c] \in Row /\ None \notin Row /\ Gone \notin Row
  BY Distinct DEF IInv, Stored, Here
<1>3. Stored'
  BY <1>1 DEF IInv, Stored
<1>4. Evolves
  BY <1>1, <1>2 DEF Evolves, Fitting, IInv, Stored
<1>5. \A s \in Requests : LeavesFiled(s)
  BY <1>1, <1>2 DEF LeavesFiled, FilingIn
<1>6. \A d \in Comics : Here(d)' = Here(d)
  BY <1>1, <1>2 DEF Here
<1>7. \A k : Live(k)' = Live(k)
  BY DEF Live
<1>8. NothingDangles'
  <2>0. ComicsHold /\ CollsHold /\ PlacesHold /\ TagsHold /\ LinksHold
    BY Parts DEF IInv, Linked
  <2>1. ComicsHold'
    BY <1>1, <1>6, <2>0 DEF ComicsHold, Fitting
  <2>2. CollsHold'
    <3>1. \A d : Here(d)' = Here(d)
      BY <1>6 DEF Here
    <3> QED BY <1>7, <2>0, <3>1 DEF CollsHold
  <2>3. PlacesHold'
    BY <1>6, <1>7, <2>0 DEF PlacesHold
  <2>4. TagsHold'
    BY <1>6, <2>0 DEF TagsHold
  <2>5. LinksHold'
    BY <1>6, <2>0 DEF LinksHold, IInv, Stored
  <2> QED BY <2>1, <2>2, <2>3, <2>4, <2>5, Parts
<1>9. \A d \in Comics : Here(d)' /\ comics'[d].source = "claimed" => comics'[d].owner \in Admins
  BY <1>1, <1>6 DEF IInv, Linked, Fitting
<1> QED BY <1>3, <1>4, <1>5, <1>8, <1>9 DEF Linked, Here

LEMMA OnRowKeeps ==
  ASSUME IInv, NEW r \in Requests, NEW ok, NEW row, OnRow(r, ok, row),
         Step(req[r]) \in {"claim", "unclaim", "hide", "unhide", "rename"},
         Here(req[r].comic) /\ ok => Fitting(row, req[r].comic)
  PROVE  Stored' /\ Linked' /\ Asking' /\ Checked' /\ OneFiler' /\ muddled' = muddled
<1> DEFINE c == req[r].comic
<1>0. UNCHANGED <<users, colls, place, tags, links, files, muddled>>
  BY DEF OnRow
<1>1. CASE Here(c) /\ ok
  <2>1. comics' = [comics EXCEPT ![c] = row] /\ Passes(r)
    BY <1>1 DEF OnRow
  <2>2. c \in Comics
    BY <1>1 DEF Here
  <2>3. Stored' /\ Linked' /\ Evolves /\ \A s \in Requests : LeavesFiled(s)
    BY <1>0, <1>1, <2>1, <2>2, RowKeeps
  <2>4. DoneIn(req[r], comics', colls', files')
    BY DEF DoneIn
  <2> QED BY <1>0, <2>1, <2>3, <2>4, PassesKeeps
<1>2. CASE ~(Here(c) /\ ok)
  <2>1. Ends(r) /\ comics' = comics
    BY <1>2 DEF OnRow
  <2>2. UNCHANGED <<rows, files>>
    BY <1>0, <2>1 DEF rows
  <2> QED BY <1>0, <2>1, <2>2, RowsStay, EndsKeeps DEF IInv
<1> QED BY <1>1, <1>2

\* An admin is at a step of admins; whoever is at it is somebody.
LEMMA ByAdmins ==
  ASSUME IInv, NEW r \in Requests, Step(req[r]) \in AdminStep
  PROVE  req[r].user \in Admins /\ req[r].user \in Users
<1>1. Has(req[r].op, AdminStep)
  BY UnderWay DEF Has, Step
<1> QED BY <1>1, UnderWay, SharingAssumption DEF Asked, SharingAssumption

\* The row of a comic that is there.
LEMMA RowOf ==
  ASSUME IInv, NEW c \in Comics, Here(c)
  PROVE  /\ comics[c] \in Row /\ comics[c].owner \in users \cup {None}
         /\ (comics[c].owner = None) = (comics[c].source \in ServerWide)
         /\ comics[c].source \in {"upload", "converted"} => c \in files
         /\ comics[c].source = "claimed" => comics[c].owner \in Admins
BY DEF IInv, Stored, Linked, NothingDangles, Here

Reowned(row, source, owner) == [row EXCEPT !.owner = owner, !.source = source]
LEMMA ReownedIs ==
  ASSUME NEW row \in Row, NEW source \in ServerWide \cup {"claimed", "upload"}, NEW owner \in Users \cup {None}
  PROVE  /\ Reowned(row, source, owner) \in Row
         /\ Reowned(row, source, owner).source = source /\ Reowned(row, source, owner).owner = owner
         /\ Reowned(row, source, owner).hidden = row.hidden
<1>1. Reowned(row, source, owner) \in Row
  BY DEF Row, Reowned
<1> QED BY <1>1 DEF Row, Reowned

LEMMA ClaimsKeeps ==
  ASSUME IInv, NEW r \in Requests, Claims(r)
  PROVE  Stored' /\ Linked' /\ Asking' /\ Checked' /\ OneFiler' /\ muddled' = muddled
<1> DEFINE q == req[r]  row == comics[q.comic]  ok == row.source = "library" /\ q.user \in users
           new == Reowned(row, "claimed", q.user)
<1>1. Step(q) = "claim" /\ OnRow(r, ok, new)
  BY DEF Claims, At, Step, Reowned
<1>2. q.user \in Admins /\ q.user \in Users /\ q.user # None
  BY <1>1, ByAdmins, Distinct DEF AdminStep
<1>3. ASSUME Here(q.comic), ok PROVE Fitting(new, q.comic)
  <2>1. q.comic \in Comics
    BY <1>3 DEF Here
  <2>2. row \in Row /\ row.owner = None
    BY <1>3, <2>1, RowOf DEF ServerWide
  <2>3. new \in Row /\ new.source = "claimed" /\ new.owner = q.user
    BY <1>2, <2>2, ReownedIs
  <2> QED BY <1>2, <1>3, <2>2, <2>3 DEF Fitting, ServerWide
<1> HIDE DEF ok, new
<1> QED BY <1>1, <1>3, OnRowKeeps

LEMMA UnclaimsKeeps ==
  ASSUME IInv, NEW r \in Requests, Unclaims(r)
  PROVE  Stored' /\ Linked' /\ Asking' /\ Checked' /\ OneFiler' /\ muddled' = muddled
<1> DEFINE q == req[r]  row == comics[q.comic]  ok == row.source = "claimed"
           new == Reowned(row, "library", None)
<1>1. Step(q) = "unclaim" /\ OnRow(r, ok, new)
  BY DEF Unclaims, At, Step, Reowned
<1>3. ASSUME Here(q.comic), ok PROVE Fitting(new, q.comic)
  <2>1. q.comic \in Comics
    BY <1>3 DEF Here
  <2>2. row \in Row /\ row.owner \in Admins
    BY <1>3, <2>1, RowOf
  <2>3. new \in Row /\ new.source = "library" /\ new.owner = None
    BY <2>2, ReownedIs DEF ServerWide
  <2> QED BY <2>2, <2>3 DEF Fitting, ServerWide
<1> HIDE DEF ok, new
<1> QED BY <1>1, <1>3, OnRowKeeps

LEMMA HidesKeeps ==
  ASSUME IInv, NEW r \in Requests, Hides(r)
  PROVE  Stored' /\ Linked' /\ Asking' /\ Checked' /\ OneFiler' /\ muddled' = muddled
<1> DEFINE q == req[r]  new == [comics[q.comic] EXCEPT !.hidden = At(r, "hide")]
<1>1. Step(q) \in {"hide", "unhide"} /\ OnRow(r, TRUE, new)
  BY DEF Hides, At, Step
<1>2. At(r, "hide") \in BOOLEAN
  BY DEF At
<1>3. ASSUME Here(q.comic) PROVE Fitting(new, q.comic)
  <2>1. q.comic \in Comics
    BY <1>3 DEF Here
  <2>2. comics[q.comic] \in Row
    BY <1>3, <2>1, RowOf
  <2>3. new \in Row
    BY <1>2, <2>2 DEF Row
  <2>4. new.source = comics[q.comic].source /\ new.owner = comics[q.comic].owner
    BY <2>2 DEF Row
  <2> QED BY <1>3, <2>1, <2>3, <2>4, RowOf DEF Fitting
<1> HIDE DEF new
<1> QED BY <1>1, <1>3, OnRowKeeps

LEMMA RenamesKeeps ==
  ASSUME IInv, NEW r \in Requests, Renames(r)
  PROVE  Stored' /\ Linked' /\ Asking' /\ Checked' /\ OneFiler' /\ muddled' = muddled
<1> DEFINE q == req[r]  new == [comics[q.comic] EXCEPT !.title = q.user]
<1>1. Step(q) = "rename" /\ OnRow(r, TRUE, new)
  BY DEF Renames, At, Step
<1>2. q.user \in Users \cup {None}
  BY UnderWay DEF Call
<1>3. ASSUME Here(q.comic) PROVE Fitting(new, q.comic)
  <2>1. q.comic \in Comics
    BY <1>3 DEF Here
  <2>2. comics[q.comic] \in Row
    BY <1>3, <2>1, RowOf
  <2>3. new \in Row
    BY <1>2, <2>2 DEF Row
  <2>4. new.source = comics[q.comic].source /\ new.owner = comics[q.comic].owner
    BY <2>2 DEF Row
  <2> QED BY <1>3, <2>1, <2>3, <2>4, RowOf DEF Fitting
<1> HIDE DEF new
<1> QED BY <1>1, <1>3, OnRowKeeps

\* A step that leaves accounts, comics, collections and files alone.
LEMMA BesideKeeps ==
  ASSUME IInv, UNCHANGED <<users, comics, colls, files>>,
         place' \in [Colls -> [Comics -> Nat \cup {None}]], PlacesHold',
         tags' \in [Users -> [Comics -> SUBSET Tags]], TagsHold',
         links' \subseteq Users \X Comics, LinksHold'
  PROVE  Stored' /\ Linked' /\ Evolves /\ \A s \in Requests : LeavesFiled(s)
<1>1. Stored' /\ Evolves
  BY DEF IInv, Stored, Evolves
<1>2. \A s \in Requests : LeavesFiled(s)
  BY DEF LeavesFiled, FilingIn
<1>3. ComicsHold /\ CollsHold
  BY Parts DEF IInv, Linked
<1>4. ComicsHold' /\ CollsHold'
  BY <1>3 DEF ComicsHold, CollsHold, Here, Live
<1>5. NothingDangles'
  BY <1>4, Parts
<1> QED BY <1>1, <1>2, <1>5 DEF IInv, Linked, Here

LEMMA SameHold ==
  ASSUME IInv, UNCHANGED <<users, comics, colls>>
  PROVE  /\ place' = place => place' \in [Colls -> [Comics -> Nat \cup {None}]] /\ PlacesHold'
         /\ tags' = tags => tags' \in [Users -> [Comics -> SUBSET Tags]] /\ TagsHold'
         /\ links' = links => links' \subseteq Users \X Comics /\ LinksHold'
<1>1. PlacesHold /\ TagsHold /\ LinksHold
  BY Parts DEF IInv, Linked
<1> QED BY <1>1 DEF PlacesHold, TagsHold, LinksHold, Here, Live, IInv, Stored

\* A call that names no step of files or of a DELETE has nothing to leave behind.
LEMMA PlainStep ==
  ASSUME NEW r \in Requests, Passes(r), IInv, Stored', Linked', Evolves, \A s \in Requests : LeavesFiled(s),
         Step(req[r]) \notin {"own", "file", "drop", "mayRename", "mayDelete"}
  PROVE  Stored' /\ Linked' /\ Asking' /\ Checked' /\ OneFiler'
<1>1. DoneIn(req[r], comics', colls', files')
  BY DEF DoneIn
<1> QED BY <1>1, PassesKeeps

LEMMA TagKeeps ==
  ASSUME IInv, NEW r \in Requests, Tag(r)
  PROVE  Stored' /\ Linked' /\ Asking' /\ Checked' /\ OneFiler' /\ muddled' = muddled
<1> DEFINE q == req[r]  ok == q.add = {} \/ (Here(q.comic) /\ q.user \in users)
<1>1. Step(q) = "tag" /\ UNCHANGED <<users, comics, colls, place, links, files, muddled>>
  BY DEF Tag, At, Step
<1>2. CASE ok
  <2>1. tags' = Tagged(q.user, q.comic, q.add) /\ Passes(r)
    BY <1>2 DEF Tag
  <2>2. q.add \in SUBSET Tags
    BY UnderWay DEF Call
  <2>3. tags' \in [Users -> [Comics -> SUBSET Tags]]
    BY <2>1, <2>2 DEF Tagged, IInv, Stored
  <2>4. TagsHold
    BY Parts DEF IInv, Linked
  <2>5. \A u \in Users, c \in Comics :
          tags'[u][c] = tags[u][c] \/ (u = q.user /\ c = q.comic /\ tags'[u][c] = q.add)
    BY <2>1 DEF Tagged, IInv, Stored
  <2>6. TagsHold'
    BY <1>1, <1>2, <2>4, <2>5 DEF TagsHold, Here
  <2>7. Stored' /\ Linked' /\ Evolves /\ \A s \in Requests : LeavesFiled(s)
    BY <1>1, <2>3, <2>6, SameHold, BesideKeeps
  <2> QED BY <1>1, <2>1, <2>7, PlainStep
<1>3. CASE ~ok
  <2>1. Ends(r) /\ UNCHANGED <<rows, files>>
    BY <1>1, <1>3 DEF Tag, rows
  <2> QED BY <1>1, <2>1, RowsStay, EndsKeeps DEF IInv
<1> QED BY <1>2, <1>3

LEMMA LinksKeeps ==
  ASSUME IInv, NEW r \in Requests, Links(r)
  PROVE  Stored' /\ Linked' /\ Asking' /\ Checked' /\ OneFiler' /\ muddled' = muddled
<1> DEFINE q == req[r]  ok == Here(q.comic) /\ q.user \in users
<1>1. Step(q) = "link" /\ UNCHANGED <<users, comics, colls, place, tags, files, muddled>>
  BY DEF Links, At, Step
<1>2. CASE ok
  <2>1. links' = links \cup {<<q.user, q.comic>>} /\ Passes(r)
    BY <1>2 DEF Links
  <2>2. q.user \in Users /\ q.comic \in Comics
    BY <1>2 DEF Here, IInv, Stored
  <2>3. LinksHold
    BY Parts DEF IInv, Linked
  <2>4. links' \subseteq Users \X Comics /\ LinksHold'
    BY <1>1, <1>2, <2>1, <2>2, <2>3 DEF LinksHold, Here, IInv, Stored
  <2>5. Stored' /\ Linked' /\ Evolves /\ \A s \in Requests : LeavesFiled(s)
    BY <1>1, <2>4, SameHold, BesideKeeps
  <2> QED BY <1>1, <2>1, <2>5, PlainStep
<1>3. CASE ~ok
  <2>1. Ends(r) /\ UNCHANGED <<rows, files>>
    BY <1>1, <1>3 DEF Links, rows
  <2> QED BY <1>1, <2>1, RowsStay, EndsKeeps DEF IInv
<1> QED BY <1>2, <1>3

LEMMA ExpiresKeeps ==
  ASSUME IInv, NEW l \in links, Expires(l)
  PROVE  Stored' /\ Linked' /\ Asking' /\ Checked' /\ OneFiler' /\ muddled' = muddled
<1>1. links' = links \ {l} /\ UNCHANGED <<users, comics, colls, place, tags, files, req, muddled>>
  BY DEF Expires
<1>2. LinksHold
  BY Parts DEF IInv, Linked
<1>3. links' \subseteq Users \X Comics /\ LinksHold'
  BY <1>1, <1>2 DEF LinksHold, Here, IInv, Stored
<1>4. Stored' /\ Linked' /\ Evolves /\ \A s \in Requests : LeavesFiled(s)
  BY <1>1, <1>3, SameHold, BesideKeeps
<1> QED BY <1>1, <1>4, NoneMoves

-----------------------------------------------------------------------------
(* What is deleted, and what goes with it.                                 *)

\* A collection that loses its cover is otherwise as it was.
LEMMA UncoveredIs ==
  ASSUME IInv, NEW k \in Colls, Live(k), NEW gc
  PROVE  /\ colls[k] \in Coll /\ Uncovered(k, gc) \in Coll
         /\ Uncovered(k, gc).owner = colls[k].owner /\ Uncovered(k, gc).shared = colls[k].shared
         /\ Uncovered(k, gc).cover = IF colls[k].cover \in gc THEN None ELSE colls[k].cover
<1>1. colls[k] \in Coll
  BY DEF IInv, Stored, Live
<1>2. [colls[k] EXCEPT !.cover = None] \in Coll
  BY <1>1 DEF Coll
<1> QED BY <1>1, <1>2 DEF Uncovered, Coll

LEMMA CascadeKeeps ==
  ASSUME IInv, NEW gc \in SUBSET Comics, NEW gk \in SUBSET Colls, Cascade(gc, gk),
         users' \subseteq users, UNCHANGED files,
         \A c \in gc : Here(c), \A k \in gk : Live(k),
         \A c \in Comics \ gc : Here(c) => comics[c].owner \in users' \cup {None},
         \A k \in Colls \ gk : Live(k) => colls[k].owner \in users'
  PROVE  Stored' /\ Linked' /\ Evolves /\ \A s \in Requests : LeavesFiled(s)
<1>0. Stored /\ ComicsHold /\ CollsHold /\ PlacesHold /\ TagsHold /\ LinksHold
  BY Parts DEF IInv, Linked
<1>1. /\ comics' \in [Comics -> Row \cup {None, Gone}]
      /\ \A c \in Comics : comics'[c] = IF c \in gc THEN Gone ELSE comics[c]
  BY <1>0 DEF Cascade, Stored
<1>2. \A k \in Colls : Live(k) =>
        /\ colls[k] \in Coll /\ Uncovered(k, gc) \in Coll
        /\ Uncovered(k, gc).owner = colls[k].owner
        /\ Uncovered(k, gc).cover = IF colls[k].cover \in gc THEN None ELSE colls[k].cover
  BY UncoveredIs
<1>3. \A k \in Colls : ~Live(k) => Uncovered(k, gc) = colls[k]
  BY DEF Uncovered
<1>4. \A k \in Colls : colls'[k] = IF k \in gk THEN Gone ELSE Uncovered(k, gc)
  BY DEF Cascade
<1>5. colls' \in [Colls -> Coll \cup {None, Gone}]
  <2>1. \A k \in Colls : Uncovered(k, gc) \in Coll \cup {None, Gone}
    BY <1>2, <1>3 DEF Live
  <2> QED BY <2>1 DEF Cascade
<1>6. \A c : Here(c)' <=> Here(c) /\ c \notin gc
  BY <1>1 DEF Here
<1>7. \A k : Live(k)' <=> Live(k) /\ k \notin gk
  <2>1. None \notin Coll /\ Gone \notin Coll
    BY Distinct
  <2> QED BY <1>2, <1>3, <1>4, <2>1 DEF Live
<1>8. /\ place' \in [Colls -> [Comics -> Nat \cup {None}]]
      /\ \A k \in Colls, c \in Comics : place'[k][c] = IF k \in gk \/ c \in gc THEN None ELSE place[k][c]
  BY <1>0 DEF Cascade, Stored
<1>9. /\ tags' \in [Users -> [Comics -> SUBSET Tags]]
      /\ \A u \in Users, c \in Comics : tags'[u][c] = IF c \in gc \/ u \notin users' THEN {} ELSE tags[u][c]
  BY <1>0 DEF Cascade, Stored
<1>10. links' = {l \in links : l[1] \in users' /\ l[2] \notin gc}
  BY DEF Cascade, LinksLeft
<1>11. Stored'
  BY <1>0, <1>1, <1>5, <1>8, <1>9, <1>10 DEF Stored
<1>12. ComicsHold'
  BY <1>0, <1>1, <1>6 DEF ComicsHold, Here
<1>13. CollsHold'
  BY <1>0, <1>2, <1>4, <1>6, <1>7 DEF CollsHold
<1>14. PlacesHold'
  BY <1>0, <1>6, <1>7, <1>8 DEF PlacesHold
<1>15. TagsHold'
  BY <1>0, <1>6, <1>9 DEF TagsHold
<1>16. LinksHold'
  BY <1>0, <1>6, <1>10 DEF LinksHold
<1>17. Linked'
  <2>1. \A c \in Comics : Here(c)' /\ comics'[c].source = "claimed" => comics'[c].owner \in Admins
    BY <1>1, <1>6 DEF IInv, Linked
  <2> QED BY <1>12, <1>13, <1>14, <1>15, <1>16, <2>1, Parts DEF Linked, Here
<1>18. Evolves
  <2>1. \A c \in Comics : comics[c] = Gone => comics'[c] = Gone
    BY <1>1
  <2>2. \A k \in Colls : colls[k] = Gone => colls'[k] = Gone
    BY <1>3, <1>4 DEF Live
  <2>3. \A k \in Colls : colls[k] \in Coll => Live(k)
    BY Distinct DEF Live
  <2> QED BY <1>1, <1>2, <1>4, <2>1, <2>2, <2>3 DEF Evolves
<1>19. \A s \in Requests : LeavesFiled(s)
  BY <1>1 DEF LeavesFiled, FilingIn, Here
<1> QED BY <1>11, <1>17, <1>18, <1>19

LEMMA DropsKeeps ==
  ASSUME IInv, NEW r \in Requests, Drops(r)
  PROVE  Stored' /\ Linked' /\ Asking' /\ Checked' /\ OneFiler' /\ muddled' = muddled
<1> DEFINE c == req[r].comic
<1>1. Step(req[r]) = "drop" /\ UNCHANGED <<users, files, muddled>>
  BY DEF Drops, At, Step
<1>2. CASE Here(c)
  <2>1. Cascade({c}, {}) /\ Passes(r) /\ c \in Comics
    BY <1>2 DEF Drops, Here
  <2>2. Stored' /\ Linked' /\ Evolves /\ \A s \in Requests : LeavesFiled(s)
    <3>1. ComicsHold /\ CollsHold
      BY Parts DEF IInv, Linked
    <3> QED BY <1>1, <1>2, <2>1, <3>1, CascadeKeeps DEF ComicsHold, CollsHold
  <2>3. comics'[c] = Gone
    BY <2>1 DEF Cascade
  <2>4. DoneIn(req[r], comics', colls', files')
    BY <1>1, <2>1, <2>3 DEF DoneIn, DroppedIn
  <2> QED BY <1>1, <2>1, <2>2, <2>4, PassesKeeps
<1>3. CASE ~Here(c)
  <2>1. Ends(r) /\ UNCHANGED <<rows, files>>
    BY <1>1, <1>3 DEF Drops
  <2> QED BY <1>1, <2>1, RowsStay, EndsKeeps DEF IInv
<1> QED BY <1>2, <1>3

LEMMA DiscardsKeeps ==
  ASSUME IInv, NEW r \in Requests, Discards(r)
  PROVE  Stored' /\ Linked' /\ Asking' /\ Checked' /\ OneFiler' /\ muddled' = muddled
<1> DEFINE k == req[r].coll
<1>1. Step(req[r]) = "discard" /\ Passes(r) /\ UNCHANGED <<users, files, muddled>>
  BY DEF Discards, At, Step
<1>2. Stored' /\ Linked' /\ Evolves /\ \A s \in Requests : LeavesFiled(s)
  <2>1. CASE Live(k)
    <3>1. Cascade({}, {k}) /\ k \in Colls
      BY <2>1 DEF Discards, Live
    <3>2. ComicsHold /\ CollsHold
      BY Parts DEF IInv, Linked
    <3> QED BY <1>1, <2>1, <3>1, <3>2, CascadeKeeps DEF ComicsHold, CollsHold
  <2>2. CASE ~Live(k)
    BY <1>1, <2>2, RowsStay DEF Discards, IInv
  <2> QED BY <2>1, <2>2
<1> QED BY <1>1, <1>2, PlainStep

LEMMA AccountGoesKeeps ==
  ASSUME IInv, NEW u \in Users, AccountGoes(u)
  PROVE  Stored' /\ Linked' /\ Asking' /\ Checked' /\ OneFiler' /\ muddled' = muddled
<1> DEFINE gk == {k \in Colls : Owns(u, k)}
<1>1. users' = users \ {u} /\ Cascade(OwnedBy(u), gk) /\ UNCHANGED <<files, req, muddled>>
  BY DEF AccountGoes
<1>2. ComicsHold /\ CollsHold
  BY Parts DEF IInv, Linked
<1>3. /\ OwnedBy(u) \in SUBSET Comics /\ \A c \in OwnedBy(u) : Here(c)
      /\ \A c \in Comics \ OwnedBy(u) : Here(c) => comics[c].owner \in users' \cup {None}
  BY <1>1, <1>2 DEF OwnedBy, ComicsHold
<1>4. /\ gk \in SUBSET Colls /\ \A k \in gk : Live(k)
      /\ \A k \in Colls \ gk : Live(k) => colls[k].owner \in users'
  BY <1>1, <1>2 DEF Owns, CollsHold
<1> HIDE DEF gk
<1>5. Stored' /\ Linked' /\ Evolves /\ \A s \in Requests : LeavesFiled(s)
  BY <1>1, <1>3, <1>4, CascadeKeeps
<1> QED BY <1>1, <1>5, NoneMoves

-----------------------------------------------------------------------------
(* Files.                                                                  *)

\* Rows stay, and no comic that has one in the data directory loses its file.
LEMMA FilesKeeps ==
  ASSUME IInv, UNCHANGED rows, files' \subseteq Comics,
         \A c \in Comics : Here(c) => (c \in files => c \in files')
  PROVE  Stored' /\ Linked' /\ Evolves
<1>1. /\ users' = users /\ comics' = comics /\ colls' = colls /\ place' = place
      /\ tags' = tags /\ links' = links
  BY DEF rows
<1>2. Stored' /\ Evolves
  BY <1>1 DEF IInv, Stored, Evolves
<1>3. ComicsHold /\ CollsHold
  BY Parts DEF IInv, Linked
<1>4. ComicsHold' /\ CollsHold'
  BY <1>1, <1>3 DEF ComicsHold, CollsHold, Here, Live
<1>5. NothingDangles'
  BY <1>1, <1>4, SameHold, Parts
<1> QED BY <1>1, <1>2, <1>5 DEF IInv, Linked, Here

LEMMA UnlinksKeeps ==
  ASSUME IInv, NEW r \in Requests, Unlinks(r)
  PROVE  Stored' /\ Linked' /\ Asking' /\ Checked' /\ OneFiler' /\ muddled' = muddled
<1> DEFINE c == req[r].comic
<1>1. /\ Step(req[r]) = "unlink" /\ files' = files \ {c} /\ Passes(r) /\ UNCHANGED <<rows, muddled>>
  BY DEF Unlinks, At, Step
<1>2. comics[c] = Gone /\ c \in Comics
  BY <1>1, UnderWay DEF ReadyIn, DroppedIn
<1>3. Stored' /\ Linked' /\ Evolves
  BY <1>1, <1>2, FilesKeeps DEF Here, IInv, Stored
<1>4. \A s \in Requests : LeavesFiled(s)
  BY <1>1, <1>2, Distinct DEF LeavesFiled, FilingIn, rows
<1> QED BY <1>1, <1>3, <1>4, PlainStep

LEMMA PutsFileKeeps ==
  ASSUME IInv, NEW r \in Requests, PutsFile(r)
  PROVE  Stored' /\ Linked' /\ Asking' /\ Checked' /\ OneFiler' /\ muddled' = muddled
<1> DEFINE q == req[r]  ok == comics[q.comic] = None /\ q.comic \notin files
<1>1. Step(q) = "file" /\ UNCHANGED <<rows, muddled>>
  BY DEF PutsFile, At, Step
<1>2. CASE ok
  <2>1. files' = files \cup {q.comic} /\ Passes(r)
    BY <1>2 DEF PutsFile
  <2>2. q.comic \in Comics
    BY <1>1, UnderWay DEF Asked, Has, Step
  <2>3. Stored' /\ Linked' /\ Evolves
    BY <1>1, <2>1, <2>2, FilesKeeps DEF IInv, Stored
  <2>4. \A s \in Requests : LeavesFiled(s)
    BY <1>1, <2>1 DEF LeavesFiled, FilingIn, rows
  <2>5. DoneIn(q, comics', colls', files')
    BY <1>1, <1>2, <2>1, <2>2 DEF DoneIn, FilingIn, rows
  <2>6. Asked(q) /\ OwnsIn(q, colls')
    BY <2>3, UnderWay, OwnsStays
  <2>7. Asked(Advanced(r)) /\ OwnsIn(Advanced(r), colls') /\ ReadyIn(Advanced(r), comics', files')
    BY <2>5, <2>6, AdvancedOK
  <2>8. \A s \in Requests \ {r} : At(s, "upsert") => req[s].comic # q.comic
    <3> SUFFICES ASSUME NEW s \in Requests, At(s, "upsert") PROVE req[s].comic # q.comic
      OBVIOUS
    <3>1. req[s].comic \in files
      BY UnderWay DEF ReadyIn, FilingIn
    <3> QED BY <1>2, <3>1
  <2>9. Advanced(r) = Idle \/ Advanced(r).comic = q.comic
    <3>1. q \in Call
      BY UnderWay
    <3> QED BY <3>1, OnwardIs DEF Advanced, Onward
  <2>10. Step(Advanced(r)) = "upsert" => \A s \in Requests \ {r} : At(s, "upsert") => req[s].comic # Advanced(r).comic
    BY <2>8, <2>9, IdleQuiet
  <2> QED BY <1>1, <2>1, <2>3, <2>4, <2>7, <2>10, OneMoves DEF Passes
<1>3. CASE ~ok
  <2>1. Ends(r) /\ UNCHANGED <<rows, files>>
    BY <1>1, <1>3 DEF PutsFile
  <2> QED BY <1>1, <2>1, RowsStay, EndsKeeps DEF IInv
<1> QED BY <1>2, <1>3

\* A row under a new id.
Born(source, owner) == [source |-> source, owner |-> owner, hidden |-> FALSE, title |-> None]
LEMMA BornKeeps ==
  ASSUME IInv, NEW c \in Comics, comics[c] = None,
         NEW source \in {"upload", "converted"}, NEW owner \in users \cup {None},
         (owner = None) = (source \in ServerWide),
         comics' = [comics EXCEPT ![c] = Born(source, owner)], c \in files', files' = files \cup {c},
         UNCHANGED <<users, colls, place, tags, links>>
  PROVE  Stored' /\ Linked' /\ Evolves
<1> DEFINE row == Born(source, owner)
<1>0. users \subseteq Users /\ comics \in [Comics -> Row \cup {None, Gone}]
  BY DEF IInv, Stored
<1>1. row \in Row /\ row.source = source /\ row.owner = owner
  BY <1>0 DEF Born, Row, ServerWide
<1> HIDE DEF row
<1>2. /\ comics' \in [Comics -> Row \cup {None, Gone}] /\ comics'[c] = row
      /\ \A d \in Comics \ {c} : comics'[d] = comics[d]
  BY <1>0, <1>1 DEF row
<1>3. Stored'
  BY <1>2 DEF IInv, Stored
<1>4. Evolves
  BY <1>2, Distinct DEF Evolves, IInv, Stored
<1>5. \A d : Here(d)' <=> Here(d) \/ d = c
  BY <1>1, <1>2, Distinct DEF Here
<1>6. ComicsHold /\ CollsHold /\ PlacesHold /\ TagsHold /\ LinksHold
  BY Parts DEF IInv, Linked
<1>7. ComicsHold'
  BY <1>1, <1>2, <1>5, <1>6 DEF ComicsHold, Here
<1>8. CollsHold' /\ PlacesHold' /\ TagsHold' /\ LinksHold'
  <2>1. \A k : Live(k)' = Live(k)
    BY DEF Live
  <2>2. CollsHold'
    BY <1>5, <1>6, <2>1 DEF CollsHold
  <2>3. PlacesHold'
    BY <1>5, <1>6, <2>1 DEF PlacesHold
  <2>4. TagsHold' /\ LinksHold'
    BY <1>5, <1>6 DEF TagsHold, LinksHold
  <2> QED BY <2>2, <2>3, <2>4
<1>9. \A d \in Comics : Here(d)' /\ comics'[d].source = "claimed" => comics'[d].owner \in Admins
  BY <1>1, <1>2, <1>5 DEF IInv, Linked
<1> QED BY <1>3, <1>4, <1>7, <1>8, <1>9, Parts DEF Linked, Here

LEMMA FilesAway ==
  ASSUME IInv, NEW r \in Requests, Files(r)
  PROVE  Stored' /\ Linked' /\ Asking' /\ Checked' /\ OneFiler' /\ muddled' = muddled
<1> DEFINE q == req[r]
<1>1. Step(q) = "upsert" /\ UNCHANGED <<users, colls, place, tags, links, muddled>>
  BY DEF Files, At, Step
<1>2. q.comic \in Comics /\ comics[q.comic] = None /\ q.comic \in files
  BY <1>1, UnderWay DEF ReadyIn, FilingIn
<1>3. \A s \in Requests \ {r} : At(s, "upsert") => req[s].comic # q.comic
  BY <1>1, UnderWay DEF IInv, OneFiler
<1>4. CASE q.user \in users
  <2>1. comics' = [comics EXCEPT ![q.comic] = Born("upload", q.user)] /\ Passes(r) /\ files' = files
    BY <1>4 DEF Files, Born
  <2>2. Stored' /\ Linked' /\ Evolves
    <3>1. /\ q.user \in users \cup {None} /\ (q.user = None) = ("upload" \in ServerWide)
          /\ q.comic \in files' /\ files' = files \cup {q.comic}
      BY <1>2, <1>4, <2>1, Distinct DEF IInv, Stored, ServerWide
    <3>2. /\ q.comic \in Comics /\ comics[q.comic] = None
          /\ comics' = [comics EXCEPT ![q.comic] = Born("upload", q.user)]
      BY <1>2, <2>1
    <3>3. "upload" \in {"upload", "converted"}
      OBVIOUS
    <3> HIDE DEF q
    <3> QED BY <1>1, <3>1, <3>2, <3>3, BornKeeps
  <2>3. \A s \in Requests \ {r} : At(s, "upsert") => LeavesFiled(s)
    BY <1>3, <2>1 DEF LeavesFiled, FilingIn, IInv, Stored
  <2>4. DoneIn(q, comics', colls', files')
    BY <1>1 DEF DoneIn
  <2> QED BY <1>1, <2>1, <2>2, <2>3, <2>4, PassesKeeps
<1>5. CASE q.user \notin users
  <2>1. files' = files \ {q.comic} /\ Ends(r) /\ UNCHANGED rows
    BY <1>1, <1>5 DEF Files, rows
  <2>2. Stored' /\ Linked' /\ Evolves
    BY <1>2, <2>1, FilesKeeps DEF Here, IInv, Stored
  <2>3. \A s \in Requests \ {r} : At(s, "upsert") => LeavesFiled(s)
    BY <1>3, <2>1 DEF LeavesFiled, FilingIn, rows
  <2> QED BY <1>1, <2>1, <2>2, <2>3, EndsKeeps
<1> QED BY <1>4, <1>5

LEMMA ConvertsKeeps ==
  ASSUME IInv, NEW c \in Comics, Converts(c)
  PROVE  Stored' /\ Linked' /\ Asking' /\ Checked' /\ OneFiler' /\ muddled' = muddled
<1>1. /\ comics[c] = None /\ c \notin files /\ files' = files \cup {c}
      /\ comics' = [comics EXCEPT ![c] = Born("converted", None)]
      /\ UNCHANGED <<users, colls, place, tags, links, req, muddled>>
  BY DEF Converts, Born
<1>2. Stored' /\ Linked' /\ Evolves
  <2>1. "converted" \in ServerWide
    BY DEF ServerWide
  <2> QED BY <1>1, <2>1, BornKeeps
<1>3. \A s \in Requests : At(s, "upsert") => LeavesFiled(s)
  BY <1>1 DEF LeavesFiled, FilingIn, IInv, Stored
<1> QED BY <1>1, <1>2, <1>3, NoneMoves

-----------------------------------------------------------------------------
(* Collections.                                                            *)

\* A call that is past its check owns the collection, if it is still there.
LEMMA PastOwn ==
  ASSUME IInv, NEW r \in Requests, Step(req[r]) \in CollStep
  PROVE  OwnedIn(req[r], colls)
<1>1. PICK j \in 1..(req[r].at - 1) : req[r].op[j] = "own"
  BY UnderWay DEF Fits, Step
<1> QED BY <1>1, UnderWay DEF OwnsIn

\* A row of collections that an INSERT or an UPDATE may leave.
LEMMA CollKeeps ==
  ASSUME IInv, NEW k \in Colls, NEW new \in Coll, colls' = [colls EXCEPT ![k] = new],
         colls[k] = None \/ (colls[k] \in Coll /\ new.owner = colls[k].owner),
         new.owner \in users, new.cover # None => Here(new.cover),
         UNCHANGED <<users, comics, place, tags, links, files>>
  PROVE  Stored' /\ Linked' /\ Evolves /\ \A s \in Requests : LeavesFiled(s)
<1>1. /\ colls' \in [Colls -> Coll \cup {None, Gone}] /\ colls'[k] = new
      /\ \A h \in Colls \ {k} : colls'[h] = colls[h]
  BY DEF IInv, Stored
<1>2. Stored'
  BY <1>1 DEF IInv, Stored
<1>3. Evolves
  BY <1>1, Distinct DEF Evolves, IInv, Stored
<1>4. \A s \in Requests : LeavesFiled(s)
  BY DEF LeavesFiled, FilingIn
<1>5. ComicsHold /\ CollsHold /\ PlacesHold /\ TagsHold /\ LinksHold
  BY Parts DEF IInv, Linked
<1>6. \A c : Here(c)' = Here(c)
  BY DEF Here
<1>7. \A h : Live(h) => Live(h)'
  BY <1>1, Distinct DEF Live
<1>8. CollsHold'
  BY <1>1, <1>5, <1>6 DEF CollsHold, Live
<1>9. ComicsHold' /\ PlacesHold' /\ TagsHold' /\ LinksHold'
  <2>1. ComicsHold'
    BY <1>5, <1>6 DEF ComicsHold
  <2>2. PlacesHold'
    BY <1>5, <1>6, <1>7 DEF PlacesHold
  <2>3. TagsHold' /\ LinksHold'
    BY <1>5, <1>6 DEF TagsHold, LinksHold
  <2> QED BY <2>1, <2>2, <2>3
<1>10. Linked'
  BY <1>8, <1>9, Parts DEF IInv, Linked, Here
<1> QED BY <1>2, <1>3, <1>4, <1>10

LEMMA CreatesKeeps ==
  ASSUME IInv, NEW r \in Requests, Creates(r)
  PROVE  Stored' /\ Linked' /\ Asking' /\ Checked' /\ OneFiler' /\ muddled' = muddled
<1> DEFINE q == req[r]  ok == colls[q.coll] = None /\ q.user \in users
           new == [owner |-> q.user, shared |-> q.flag, cover |-> None]
<1>1. Step(q) = "create" /\ UNCHANGED <<users, comics, place, tags, links, files, muddled>>
  BY DEF Creates, At, Step
<1>2. CASE ok
  <2>1. colls' = [colls EXCEPT ![q.coll] = new] /\ Passes(r)
    BY <1>2 DEF Creates
  <2>2. new \in Coll /\ new.owner = q.user /\ new.cover = None
    BY <1>2, UnderWay DEF Coll, Call, IInv, Stored
  <2>3. Stored' /\ Linked' /\ Evolves /\ \A s \in Requests : LeavesFiled(s)
    <3>1. CASE q.coll \in Colls
      <4> HIDE DEF new
      <4> QED BY <1>1, <1>2, <2>1, <2>2, <3>1, CollKeeps
    <3>2. CASE q.coll \notin Colls
      <4>1. colls' = colls
        BY <2>1, <3>2 DEF IInv, Stored
      <4> QED BY <1>1, <4>1, RowsStay DEF rows, IInv
    <3> QED BY <3>1, <3>2
  <2> QED BY <1>1, <2>1, <2>3, PlainStep
<1>3. CASE ~ok
  <2>1. Ends(r) /\ UNCHANGED <<rows, files>>
    BY <1>1, <1>3 DEF Creates, rows
  <2> QED BY <1>1, <2>1, RowsStay, EndsKeeps DEF IInv
<1> QED BY <1>2, <1>3

LEMMA CollOf ==
  ASSUME IInv, NEW k \in Colls, Live(k)
  PROVE  /\ colls[k] \in Coll /\ colls[k].owner \in users
         /\ colls[k].cover # None => Here(colls[k].cover)
BY DEF IInv, Stored, Linked, NothingDangles, Live

LEMMA SharesKeeps ==
  ASSUME IInv, NEW r \in Requests, Shares(r)
  PROVE  Stored' /\ Linked' /\ Asking' /\ Checked' /\ OneFiler' /\ muddled' = muddled
<1> DEFINE q == req[r]  new == [colls[q.coll] EXCEPT !.shared = q.flag]
<1>1. Step(q) = "share" /\ Passes(r) /\ UNCHANGED <<users, comics, place, tags, links, files, muddled>>
  BY DEF Shares, At, Step
<1>2. Stored' /\ Linked' /\ Evolves /\ \A s \in Requests : LeavesFiled(s)
  <2>1. CASE Live(q.coll)
    <3>1. q.coll \in Colls
      BY <2>1 DEF Live
    <3>2. colls[q.coll] \in Coll
      BY <2>1, <3>1, CollOf
    <3>3. new \in Coll /\ new.owner = colls[q.coll].owner /\ new.cover = colls[q.coll].cover
      BY <3>2, UnderWay DEF Coll, Call
    <3>4. colls' = [colls EXCEPT ![q.coll] = new]
      BY <2>1, <3>1 DEF Shares, IInv, Stored
    <3> HIDE DEF new
    <3> QED BY <1>1, <2>1, <3>1, <3>2, <3>3, <3>4, CollOf, CollKeeps
  <2>2. CASE ~Live(q.coll)
    BY <1>1, <2>2, RowsStay DEF Shares, rows, IInv
  <2> QED BY <2>1, <2>2
<1> QED BY <1>1, <1>2, PlainStep

LEMMA CoversKeeps ==
  ASSUME IInv, NEW r \in Requests, Covers(r)
  PROVE  Stored' /\ Linked' /\ Asking' /\ Checked' /\ OneFiler' /\ muddled' = muddled
<1> DEFINE q == req[r]  new == [colls[q.coll] EXCEPT !.cover = q.comic]
<1>1. Step(q) = "cover" /\ Passes(r) /\ UNCHANGED <<users, comics, place, tags, links, files, muddled>>
  BY DEF Covers, At, Step
<1>2. Stored' /\ Linked' /\ Evolves /\ \A s \in Requests : LeavesFiled(s)
  <2>1. CASE Live(q.coll) /\ Here(q.comic)
    <3>1. q.coll \in Colls /\ q.comic \in Comics
      BY <2>1 DEF Live, Here
    <3>2. colls[q.coll] \in Coll
      BY <2>1, <3>1, CollOf
    <3>3. new \in Coll /\ new.owner = colls[q.coll].owner /\ new.cover = q.comic
      BY <3>1, <3>2 DEF Coll
    <3>4. colls' = [colls EXCEPT ![q.coll] = new]
      BY <2>1, <3>1 DEF Covers, IInv, Stored
    <3> HIDE DEF new
    <3> QED BY <1>1, <2>1, <3>1, <3>2, <3>3, <3>4, CollOf, CollKeeps
  <2>2. CASE ~(Live(q.coll) /\ Here(q.comic))
    BY <1>1, <2>2, RowsStay DEF Covers, rows, IInv
  <2> QED BY <2>1, <2>2
<1> QED BY <1>1, <1>2, PlainStep

LEMMA InsertsKeeps ==
  ASSUME IInv, NEW r \in Requests, Inserts(r)
  PROVE  Stored' /\ Linked' /\ Asking' /\ Checked' /\ OneFiler' /\ muddled' \subseteq Colls
<1> DEFINE q == req[r]  ok == Live(q.coll) /\ Here(q.comic) /\ place[q.coll][q.comic] = None
<1>1. Step(q) = "insert" /\ Passes(r) /\ UNCHANGED <<users, comics, colls, tags, links, files>>
  BY DEF Inserts, At, Step
<1>2. place' \in [Colls -> [Comics -> Nat \cup {None}]] /\ PlacesHold' /\ muddled' \subseteq Colls
  <2>1. CASE ok
    <3>1. q.coll \in Colls /\ q.comic \in Comics /\ q.end \in Nat
      BY <2>1, UnderWay DEF Live, Here, Call
    <3>2. /\ place' = [place EXCEPT ![q.coll] = [@ EXCEPT ![q.comic] = q.end]]
          /\ muddled' = IF r \in raced THEN muddled \cup {q.coll} ELSE muddled
      BY <2>1 DEF Inserts
    <3>3. place' \in [Colls -> [Comics -> Nat \cup {None}]]
      BY <3>1, <3>2 DEF IInv, Stored
    <3>4. \A k \in Colls, c \in Comics : place'[k][c] = place[k][c] \/ (k = q.coll /\ c = q.comic)
      BY <3>2 DEF IInv, Stored
    <3>5. PlacesHold
      BY Parts DEF IInv, Linked
    <3>6. PlacesHold'
      BY <1>1, <2>1, <3>4, <3>5 DEF PlacesHold, Here, Live
    <3> QED BY <3>1, <3>2, <3>3, <3>6 DEF IInv, Bounded
  <2>2. CASE ~ok
    <3>1. place' = place /\ muddled' = muddled
      BY <2>2 DEF Inserts
    <3> QED BY <1>1, <3>1, SameHold DEF IInv, Bounded
  <2> QED BY <2>1, <2>2
<1>3. Stored' /\ Linked' /\ Evolves /\ \A s \in Requests : LeavesFiled(s)
  BY <1>1, <1>2, SameHold, BesideKeeps
<1> QED BY <1>1, <1>2, <1>3, PlainStep

LEMMA RemovesKeeps ==
  ASSUME IInv, NEW r \in Requests, Removes(r)
  PROVE  Stored' /\ Linked' /\ Asking' /\ Checked' /\ OneFiler' /\ muddled' = muddled
<1> DEFINE q == req[r]
<1>1. /\ Step(q) = "remove" /\ Passes(r) /\ UNCHANGED <<users, comics, colls, tags, links, files, muddled>>
      /\ place' = [place EXCEPT ![q.coll] = [@ EXCEPT ![q.comic] = None]]
  BY DEF Removes, At, Step
<1>2. /\ place' \in [Colls -> [Comics -> Nat \cup {None}]]
      /\ \A k \in Colls, c \in Comics : place'[k][c] \in {place[k][c], None}
  BY <1>1 DEF IInv, Stored
<1>3. PlacesHold
  BY Parts DEF IInv, Linked
<1>4. PlacesHold'
  BY <1>1, <1>2, <1>3 DEF PlacesHold, Here, Live
<1>5. Stored' /\ Linked' /\ Evolves /\ \A s \in Requests : LeavesFiled(s)
  BY <1>1, <1>2, <1>4, SameHold, BesideKeeps
<1> QED BY <1>1, <1>5, PlainStep

\* A reorder moves members, and makes nobody one.
LEMMA ReordersMoves ==
  ASSUME IInv, NEW r \in Requests, Reorders(r)
  PROVE  /\ place' \in [Colls -> [Comics -> Nat \cup {None}]]
         /\ \A k \in Colls, c \in Comics :
              /\ place'[k][c] # None => place[k][c] # None
              /\ place'[k][c] # place[k][c] => k = req[r].coll
<1> DEFINE q == req[r]  o == q.order
           moved == [c \in Comics |-> IF Member(q.coll, c) /\ c \in Listed(o)
                                      THEN (CHOOSE i \in DOMAIN o : o[i] = c) - 1 ELSE place[q.coll][c]]
<1>1. Step(q) = "order" /\ place' = [place EXCEPT ![q.coll] = moved]
  BY DEF Reorders, At, Step
<1>2. q.coll \in Colls
  BY <1>1, PastOwn DEF CollStep, OwnedIn
<1>3. \A i \in DOMAIN o : i - 1 \in Nat
  <2>1. o \in Orders \cup {<<>>}
    BY UnderWay DEF Call
  <2>2. \A s \in Seq(Comics) : \A i \in DOMAIN s : i - 1 \in Nat
    OBVIOUS
  <2>3. DOMAIN <<>> = {}
    OBVIOUS
  <2>4. Orders \subseteq Seq(Comics)
    BY SharingAssumption DEF SharingAssumption
  <2> HIDE DEF o
  <2> QED BY <2>1, <2>2, <2>3, <2>4
<1>4. \A c \in Listed(o) : (CHOOSE i \in DOMAIN o : o[i] = c) - 1 \in Nat
  <2> SUFFICES ASSUME NEW c \in Listed(o) PROVE (CHOOSE i \in DOMAIN o : o[i] = c) - 1 \in Nat
    OBVIOUS
  <2>1. (CHOOSE i \in DOMAIN o : o[i] = c) \in DOMAIN o
    BY DEF Listed
  <2> QED BY <1>3, <2>1
<1>5. moved \in [Comics -> Nat \cup {None}]
  BY <1>2, <1>4 DEF IInv, Stored
<1>6. \A c \in Comics : moved[c] # None => place[q.coll][c] # None
  BY DEF Member
<1> HIDE DEF moved
<1>7. place' \in [Colls -> [Comics -> Nat \cup {None}]]
  BY <1>1, <1>2, <1>5 DEF IInv, Stored
<1> QED BY <1>1, <1>2, <1>6, <1>7 DEF IInv, Stored

LEMMA ReordersKeeps ==
  ASSUME IInv, NEW r \in Requests, Reorders(r)
  PROVE  Stored' /\ Linked' /\ Asking' /\ Checked' /\ OneFiler' /\ muddled' \subseteq Colls
<1>1. Step(req[r]) = "order" /\ Passes(r) /\ UNCHANGED <<users, comics, colls, tags, links, files>>
  BY DEF Reorders, At, Step
<1>2. muddled' \subseteq Colls
  <2>1. req[r].coll \in Colls
    BY <1>1, PastOwn DEF CollStep, OwnedIn
  <2> QED BY <2>1 DEF Reorders, IInv, Bounded
<1>3. PlacesHold
  BY Parts DEF IInv, Linked
<1>4. PlacesHold'
  BY <1>1, <1>3, ReordersMoves DEF PlacesHold, Here, Live
<1>5. Stored' /\ Linked' /\ Evolves /\ \A s \in Requests : LeavesFiled(s)
  BY <1>1, <1>4, SameHold, BesideKeeps, ReordersMoves
<1> QED BY <1>1, <1>2, <1>5, PlainStep

-----------------------------------------------------------------------------
(* Every step.                                                             *)

LEMMA BeginsKeeps ==
  ASSUME IInv, NEW r \in Requests, NEW q \in Asks, Begins(r, q)
  PROVE  /\ Stored' /\ Linked' /\ Asking' /\ Checked' /\ OneFiler'
         /\ calls' \in 0..MaxCalls /\ muddled' = muddled
<1>1. /\ req' = [req EXCEPT ![r] = q] /\ UNCHANGED <<rows, files, muddled>>
      /\ calls < MaxCalls /\ calls' = calls + 1
  BY DEF Begins
<1>2. Asked(q) /\ q.at = 1 /\ Fits(q.op) /\ 1 \in DOMAIN q.op
  BY AsksAsked, CallFacts DEF Fresh, Asked
<1>3. OwnsIn(q, colls)
  BY <1>2 DEF OwnsIn
<1>4. Step(q) \notin {"upsert", "unlink", "rename", "drop"}
  <2>1. \A s, step, before : Follows(s, step, before) /\ 1 \in DOMAIN s /\ 0 \notin DOMAIN s => s[1] # step
    BY DEF Follows
  <2>2. 0 \notin DOMAIN q.op
    BY <1>2 DEF Fits
  <2> QED BY <1>2, <2>1, <2>2 DEF Fits, Step
<1>5. ReadyIn(q, comics, files)
  BY <1>4 DEF ReadyIn
<1>6. Stored' /\ Linked' /\ Asking' /\ Checked' /\ OneFiler'
  BY <1>1, <1>2, <1>3, <1>4, <1>5, QuietStep
<1>7. calls' \in 0..MaxCalls
  BY <1>1, SharingAssumption DEF IInv, Bounded, SharingAssumption
<1> QED BY <1>1, <1>6, <1>7

LEMMA RestartsKeeps ==
  ASSUME IInv, Restarts
  PROVE  Stored' /\ Linked' /\ Asking' /\ Checked' /\ OneFiler' /\ muddled' = muddled
<1>1. req' = [r \in Requests |-> Idle] /\ UNCHANGED <<rows, files, muddled>>
  BY DEF Restarts
<1>2. Stored' /\ Linked'
  BY <1>1, RowsStay DEF IInv
<1>3. \A r \in Requests : req'[r] = Idle
  BY <1>1
<1>4. Asking'
  <2>1. req' \in [Requests -> Call]
    BY <1>1, IdleAsked DEF Asked
  <2>2. ASSUME NEW r \in Requests PROVE Asked(req[r])'
    <3>1. Asked(req'[r])
      BY <1>3, IdleAsked
    <3> QED BY <3>1 DEF Asked
  <2> QED BY <2>1, <2>2 DEF Asking
<1>5. Checked'
  <2> SUFFICES ASSUME NEW s \in Requests
               PROVE  OwnsIn(req'[s], colls') /\ ReadyIn(req'[s], comics', files')
    BY DEF Checked, OwnsIn, OwnedIn, ReadyIn, FilingIn, DroppedIn, MineIn, Step
  <2> QED BY <1>3, IdleQuiet
<1>6. OneFiler'
  BY <1>3, IdleQuiet DEF OneFiler, At, Step
<1> QED BY <1>1, <1>2, <1>4, <1>5, <1>6

LEMMA StartIs == Init => IInv
<1> SUFFICES ASSUME Init PROVE IInv
  OBVIOUS
<1>0. /\ users = Users /\ comics = Shelf /\ colls = Kept /\ place = Held
      /\ tags = [u \in Users |-> [c \in Comics |-> {}]] /\ links = {}
      /\ files = {c \in Comics : Shelf[c] # None /\ Shelf[c].source \in {"upload", "converted"}}
      /\ req = [r \in Requests |-> Idle] /\ calls = 0 /\ raced = {} /\ muddled = {k \in Colls : ~Clear(Held[k])}
  BY DEF Init
<1>1. Stored
  BY <1>0, StartAssumption DEF Stored, StartAssumption
<1>2. Bounded
  BY <1>0, SharingAssumption DEF Bounded, SharingAssumption
<1>3. \A r \in Requests : req[r] = Idle
  BY <1>0
<1>4. Asking
  BY <1>0, <1>3, IdleAsked DEF Asking, Asked
<1>5. Checked /\ OneFiler
  BY <1>3, IdleQuiet DEF Checked, OneFiler, At, Step
<1>6. Linked
  <2>1. \A c \in Comics : Here(c) <=> Shelf[c] # None
    BY <1>0, StartAssumption, Distinct DEF StartAssumption, Here
  <2>2. \A k \in Colls : Live(k) <=> Kept[k] # None
    BY <1>0, StartAssumption, Distinct DEF StartAssumption, Live
  <2>3. ComicsHold
    BY <1>0, <2>1, StartAssumption DEF StartAssumption, ComicsHold, Row
  <2>4. CollsHold
    BY <1>0, <2>1, <2>2, StartAssumption DEF StartAssumption, CollsHold, Coll
  <2>5. PlacesHold
    BY <1>0, <2>1, <2>2, StartAssumption DEF StartAssumption, PlacesHold
  <2>6. TagsHold /\ LinksHold
    BY <1>0 DEF TagsHold, LinksHold
  <2>7. \A c \in Comics : Here(c) /\ comics[c].source = "claimed" => comics[c].owner \in Admins
    BY <1>0, <2>1, StartAssumption DEF StartAssumption
  <2> QED BY <2>3, <2>4, <2>5, <2>6, <2>7, Parts DEF Linked
<1> QED BY <1>1, <1>2, <1>4, <1>5, <1>6 DEF IInv

LEMMA StepKeeps == IInv /\ [Next]_vars => IInv'
<1> SUFFICES ASSUME IInv, [Next]_vars PROVE IInv'
  OBVIOUS
<1> DEFINE Kept5 == Stored' /\ Linked' /\ Asking' /\ Checked' /\ OneFiler'
<1>1. ASSUME NEW r \in Requests, ComicWrite(r) PROVE Kept5 /\ muddled' = muddled
  BY <1>1, ClaimsKeeps, UnclaimsKeeps, HidesKeeps, RenamesKeeps, TagKeeps, LinksKeeps, DropsKeeps,
     UnlinksKeeps, PutsFileKeeps, FilesAway DEF ComicWrite
<1>2. ASSUME NEW r \in Requests, CollWrite(r) PROVE Kept5 /\ muddled' \subseteq Colls
  <2>1. muddled \subseteq Colls
    BY DEF IInv, Bounded
  <2> QED BY <1>2, <2>1, CreatesKeeps, SharesKeeps, CoversKeeps, DiscardsKeeps, InsertsKeeps,
             RemovesKeeps, ReordersKeeps DEF CollWrite
<1>3. ASSUME Elsewhere PROVE Kept5 /\ muddled' = muddled
  BY <1>3, ExpiresKeeps, ConvertsKeeps, AccountGoesKeeps, RestartsKeeps DEF Elsewhere
<1>4. CASE Next
  <2>1. raced' \subseteq Requests
    BY <1>4 DEF Next, Observes
  <2>2. calls \in 0..MaxCalls /\ muddled \subseteq Colls
    BY DEF IInv, Bounded
  <2>3. CASE \E r \in Requests, q \in Asks : Begins(r, q)
    BY <2>1, <2>2, <2>3, BeginsKeeps DEF IInv, Bounded
  <2>4. CASE /\ \/ \E r \in Requests : Checking(r) \/ ComicWrite(r) \/ CollWrite(r)
                \/ Elsewhere
             /\ UNCHANGED calls
    <3>1. Kept5 /\ muddled' \subseteq Colls
      BY <1>1, <1>2, <1>3, <2>2, <2>4, CheckingKeeps
    <3> QED BY <2>1, <2>2, <2>4, <3>1 DEF IInv, Bounded
  <2> QED BY <1>4, <2>3, <2>4 DEF Next
<1>5. CASE UNCHANGED vars
  <2>1. /\ UNCHANGED <<rows, files>> /\ req' = req
        /\ calls' = calls /\ raced' = raced /\ muddled' = muddled
    BY <1>5 DEF vars
  <2>2. Stored' /\ Linked' /\ Evolves /\ \A s \in Requests : LeavesFiled(s)
    BY <2>1, RowsStay DEF IInv
  <2>3. Asking' /\ Checked' /\ OneFiler'
    BY <2>1, <2>2, NoneMoves
  <2> QED BY <2>1, <2>2, <2>3 DEF IInv, Bounded
<1> QED BY <1>4, <1>5

LEMMA Always == Spec => []IInv
<1> QED BY StartIs, StepKeeps, PTL DEF Spec

\* Every table, every call under way and every bound is of its type, whatever
\* the statements of accessors.go find when they run.
THEOREM TypesHold == Spec => []TypeOK
<1>1. IInv => TypeOK
  <2> SUFFICES ASSUME IInv PROVE TypeOK
    OBVIOUS
  <2>1. \A r \in Requests : req[r].at <= Len(req[r].op)
    <3> SUFFICES ASSUME NEW r \in Requests PROVE req[r].at <= Len(req[r].op)
      OBVIOUS
    <3>1. req[r].at \in 1..Len(req[r].op)
      BY UnderWay
    <3>2. Len(req[r].op) \in Nat
      BY UnderWay, CallFacts
    <3> QED BY <3>1, <3>2
  <2> QED BY <2>1 DEF IInv, Stored, Bounded, Asking, TypeOK
<1> QED BY <1>1, Always, PTL

\* The foreign keys of the schema, the checks of accessors.go and the order of
\* Adopt's and DeleteComic's two halves (imports/adopt.go, comic_handlers.go)
\* leave nothing pointing at what is gone.
THEOREM NoneDangles == Spec => []NothingDangles
<1>1. IInv => NothingDangles
  BY DEF IInv, Linked
<1> QED BY <1>1, Always, PTL

-----------------------------------------------------------------------------
(* Who changes what.                                                       *)

LEMMA PassingActs ==
  ASSUME IInv, NEW r \in Requests, Passes(r), Step(req[r]) # "idle"
  PROVE  Acts(r)
<1>1. req'[r] = Advanced(r)
  BY DEF Passes, IInv, Asking
<1>2. Idle # req[r]
  BY IdleQuiet
<1>3. req[r].at \in Nat /\ Onward(req[r]).at = req[r].at + 1
  BY UnderWay, CallFacts, OnwardIs
<1>4. Onward(req[r]) # req[r]
  BY <1>3
<1> QED BY <1>1, <1>2, <1>4 DEF Acts, Advanced, Onward

\* An owner's act on a collection.
LEMMA ByOwner ==
  ASSUME IInv, NEW r \in Requests, Passes(r), Step(req[r]) \in CollStep
  PROVE  req[r].coll \in Colls /\ (Live(req[r].coll) => ActsFor(colls[req[r].coll].owner))
<1>1. Acts(r) /\ OwnedIn(req[r], colls)
  BY PassingActs, PastOwn DEF CollStep
<1> QED BY <1>1 DEF OwnedIn, Live, ActsFor

\* The parts of Changes.
RowsOfOwners == \A c \in Comics : Here(c) /\ comics'[c] # comics[c] =>
  ActsFor(comics[c].owner) \/ AdminActs \/ comics[c].owner \in Users \ users'
CollsOfOwners == \A k \in Colls : Live(k) /\ colls'[k] # colls[k] =>
  \/ ActsFor(colls[k].owner) \/ colls[k].owner \notin users'
  \/ colls'[k] # Gone /\ \E c \in Comics : colls[k].cover = c /\ ~Here(c)'
PlacesOfOwners == \A k \in Colls, c \in Comics : Live(k) /\ place'[k][c] # place[k][c] =>
  ActsFor(colls[k].owner) \/ ~Live(k)' \/ ~Here(c)'
TagsOfTheirs == \A u \in users, c \in Comics : tags'[u][c] # tags[u][c] =>
  ActsFor(u) \/ u \notin users' \/ ~Here(c)'

LEMMA InParts == RowsOfOwners /\ CollsOfOwners /\ PlacesOfOwners /\ TagsOfTheirs => Changes
BY DEF RowsOfOwners, CollsOfOwners, PlacesOfOwners, TagsOfTheirs, Changes

LEMMA Same ==
  /\ comics' = comics => RowsOfOwners
  /\ colls' = colls => CollsOfOwners
  /\ place' = place => PlacesOfOwners
  /\ tags' = tags => TagsOfTheirs
BY DEF RowsOfOwners, CollsOfOwners, PlacesOfOwners, TagsOfTheirs

LEMMA StillSame == UNCHANGED rows => Changes
BY Same, InParts DEF rows

\* What is deleted takes along only what hangs on it.
LEMMA CascadeChanges ==
  ASSUME IInv, NEW gc \in SUBSET Comics, NEW gk \in SUBSET Colls, Cascade(gc, gk), users' \subseteq users,
         \A c \in gc : ActsFor(comics[c].owner) \/ AdminActs \/ comics[c].owner \in Users \ users',
         \A k \in gk : ActsFor(colls[k].owner) \/ colls[k].owner \notin users'
  PROVE  Changes
<1>1. RowsOfOwners
  BY DEF Cascade, RowsOfOwners
<1>2. \A c \in gc : ~Here(c)'
  BY DEF Cascade, Here
<1>3. \A k \in gk : ~Live(k)'
  BY DEF Cascade, Live
<1>4. CollsOfOwners
  <2> SUFFICES ASSUME NEW k \in Colls, Live(k), colls'[k] # colls[k], k \notin gk
               PROVE  colls'[k] # Gone /\ \E c \in Comics : colls[k].cover = c /\ ~Here(c)'
    BY DEF CollsOfOwners
  <2>1. colls'[k] = Uncovered(k, gc) /\ colls[k].cover \in gc
    BY DEF Cascade, Uncovered
  <2>2. colls[k] \in Coll
    BY CollOf
  <2>3. [colls[k] EXCEPT !.cover = None] \in Coll
    BY <2>2 DEF Coll
  <2>5. \A c \in gc : ~Here(c)'
    BY DEF Cascade, Here
  <2> QED BY <2>1, <2>3, <2>5, Distinct DEF Uncovered
<1>5. PlacesOfOwners
  BY <1>2, <1>3 DEF Cascade, PlacesOfOwners, IInv, Stored
<1>6. TagsOfTheirs
  BY <1>2 DEF Cascade, TagsOfTheirs, IInv, Stored
<1> QED BY <1>1, <1>4, <1>5, <1>6, InParts

LEMMA OnRowChanges ==
  ASSUME IInv, NEW r \in Requests, NEW ok, NEW row, OnRow(r, ok, row),
         Here(req[r].comic) /\ ok /\ Acts(r) => ActsFor(comics[req[r].comic].owner) \/ AdminActs,
         Step(req[r]) # "idle"
  PROVE  Changes
<1>1. UNCHANGED <<colls, place, tags>>
  BY DEF OnRow
<1>2. RowsOfOwners
  <2>1. CASE Here(req[r].comic) /\ ok
    <3>1. Acts(r)
      BY <2>1, PassingActs DEF OnRow
    <3> QED BY <2>1, <3>1 DEF OnRow, RowsOfOwners, IInv, Stored
  <2>2. CASE ~(Here(req[r].comic) /\ ok)
    BY <2>2, Same DEF OnRow
  <2> QED BY <2>1, <2>2
<1> QED BY <1>1, <1>2, Same, InParts

LEMMA MineActs ==
  ASSUME IInv, NEW r \in Requests, Acts(r), Step(req[r]) \in {"rename", "drop"}, Here(req[r].comic)
  PROVE  ActsFor(comics[req[r].comic].owner) \/ AdminActs
<1>1. MineIn(req[r], comics)
  BY UnderWay DEF ReadyIn
<1> QED BY <1>1 DEF MineIn, Here, ActsFor, AdminActs

LEMMA ComicWriteChanges ==
  ASSUME IInv, NEW r \in Requests, ComicWrite(r)
  PROVE  Changes
<1> DEFINE q == req[r]
<1>0. Acts(r) /\ Step(q) \in AdminStep => AdminActs
  BY ByAdmins DEF AdminActs
<1>1. ASSUME Claims(r) \/ Unclaims(r) \/ Hides(r) PROVE Changes
  <2>1. Step(q) \in AdminStep /\ Step(q) # "idle"
    BY <1>1 DEF Claims, Unclaims, Hides, At, Step, AdminStep
  <2>2. Acts(r) => AdminActs
    BY <1>0, <2>1
  <2>3. \E ok, row : OnRow(r, ok, row)
    BY <1>1 DEF Claims, Unclaims, Hides
  <2> QED BY <2>1, <2>2, <2>3, OnRowChanges
<1>2. ASSUME Renames(r) PROVE Changes
  <2>1. Step(q) = "rename" /\ OnRow(r, TRUE, [comics[q.comic] EXCEPT !.title = q.user])
    BY <1>2 DEF Renames, At, Step
  <2>2. Here(q.comic) /\ Acts(r) => ActsFor(comics[q.comic].owner) \/ AdminActs
    BY <2>1, MineActs
  <2> QED BY <2>1, <2>2, OnRowChanges
<1>3. ASSUME Tag(r) PROVE Changes
  <2>1. Step(q) = "tag" /\ UNCHANGED <<comics, colls, place>>
    BY <1>3 DEF Tag, At, Step
  <2>2. TagsOfTheirs
    <3>1. CASE tags' = Tagged(q.user, q.comic, q.add) /\ Passes(r)
      <4>1. Acts(r)
        BY <2>1, <3>1, PassingActs
      <4> QED BY <3>1, <4>1 DEF Tagged, TagsOfTheirs, ActsFor, IInv, Stored
    <3>2. CASE tags' = tags
      BY <3>2, Same
    <3> QED BY <1>3, <3>1, <3>2 DEF Tag
  <2> QED BY <2>1, <2>2, Same, InParts
<1>4. ASSUME Links(r) \/ Unlinks(r) \/ PutsFile(r) PROVE Changes
  <2>1. UNCHANGED <<comics, colls, place, tags>>
    BY <1>4 DEF Links, Unlinks, PutsFile, rows
  <2> QED BY <2>1, Same, InParts
<1>5. ASSUME Drops(r) PROVE Changes
  <2>1. Step(q) = "drop" /\ users' = users
    BY <1>5 DEF Drops, At, Step
  <2>2. CASE Here(q.comic)
    <3>1. Cascade({q.comic}, {}) /\ Passes(r) /\ q.comic \in Comics
      BY <1>5, <2>2 DEF Drops, Here
    <3>2. ActsFor(comics[q.comic].owner) \/ AdminActs
      BY <2>1, <2>2, <3>1, PassingActs, MineActs
    <3> QED BY <2>1, <3>1, <3>2, CascadeChanges
  <2>3. CASE ~Here(q.comic)
    BY <1>5, <2>3, StillSame DEF Drops
  <2> QED BY <2>2, <2>3
<1>6. ASSUME Files(r) PROVE Changes
  <2>1. Step(q) = "upsert" /\ UNCHANGED <<colls, place, tags>>
    BY <1>6 DEF Files, At, Step
  <2>2. comics[q.comic] = None
    BY <2>1, UnderWay DEF ReadyIn, FilingIn
  <2>3. \A c \in Comics : comics'[c] = comics[c] \/ c = q.comic
    BY <1>6 DEF Files, IInv, Stored
  <2>4. RowsOfOwners
    BY <2>2, <2>3 DEF RowsOfOwners, Here
  <2> QED BY <2>1, <2>4, Same, InParts
<1> QED BY <1>1, <1>2, <1>3, <1>4, <1>5, <1>6 DEF ComicWrite

LEMMA CollWriteChanges ==
  ASSUME IInv, NEW r \in Requests, CollWrite(r)
  PROVE  Changes
<1> DEFINE q == req[r]
<1>1. ASSUME Creates(r) PROVE Changes
  <2>1. UNCHANGED <<comics, place, tags>>
    BY <1>1 DEF Creates
  <2>2. \A k \in Colls : colls'[k] = colls[k] \/ ~Live(k)
    BY <1>1 DEF Creates, Live, IInv, Stored
  <2>3. CollsOfOwners
    BY <2>2 DEF CollsOfOwners
  <2> QED BY <2>1, <2>3, Same, InParts
<1>2. ASSUME Shares(r) \/ Covers(r) PROVE Changes
  <2>1. Step(q) \in CollStep /\ Passes(r) /\ UNCHANGED <<comics, place, tags>>
    BY <1>2 DEF Shares, Covers, At, Step, CollStep
  <2>2. \A k \in Colls : colls'[k] = colls[k] \/ k = q.coll
    BY <1>2 DEF Shares, Covers, IInv, Stored
  <2>3. CollsOfOwners
    BY <2>1, <2>2, ByOwner DEF CollsOfOwners
  <2> QED BY <2>1, <2>3, Same, InParts
<1>3. ASSUME Discards(r) PROVE Changes
  <2>1. Step(q) \in CollStep /\ Passes(r) /\ users' = users
    BY <1>3 DEF Discards, At, Step, CollStep
  <2>2. CASE Live(q.coll)
    <3>1. Cascade({}, {q.coll}) /\ ActsFor(colls[q.coll].owner) /\ q.coll \in Colls
      BY <1>3, <2>1, <2>2, ByOwner DEF Discards
    <3> QED BY <2>1, <3>1, CascadeChanges
  <2>3. CASE ~Live(q.coll)
    BY <1>3, <2>3, StillSame DEF Discards
  <2> QED BY <2>2, <2>3
<1>4. ASSUME Inserts(r) \/ Removes(r) \/ Reorders(r) PROVE Changes
  <2>1. Step(q) \in CollStep /\ Passes(r) /\ UNCHANGED <<comics, colls, tags>>
    BY <1>4 DEF Inserts, Removes, Reorders, At, Step, CollStep
  <2>2. \A k \in Colls, c \in Comics : place'[k][c] # place[k][c] => k = q.coll
    <3>1. ASSUME Inserts(r) PROVE \A k \in Colls, c \in Comics : place'[k][c] # place[k][c] => k = q.coll
      BY <3>1 DEF Inserts, IInv, Stored
    <3>2. ASSUME Removes(r) PROVE \A k \in Colls, c \in Comics : place'[k][c] # place[k][c] => k = q.coll
      BY <3>2 DEF Removes, IInv, Stored
    <3> QED BY <1>4, <3>1, <3>2, ReordersMoves
  <2>3. PlacesOfOwners
    BY <2>1, <2>2, ByOwner DEF PlacesOfOwners
  <2> QED BY <2>1, <2>3, Same, InParts
<1> QED BY <1>1, <1>2, <1>3, <1>4 DEF CollWrite

LEMMA ElsewhereChanges ==
  ASSUME IInv, Elsewhere
  PROVE  Changes
<1>1. ASSUME NEW l \in links, Expires(l) PROVE Changes
  BY <1>1, Same, InParts DEF Expires
<1>2. ASSUME NEW c \in Comics, Converts(c) PROVE Changes
  <2>1. \A d \in Comics : comics'[d] = comics[d] \/ ~Here(d)
    BY <1>2 DEF Converts, Here, IInv, Stored
  <2>2. RowsOfOwners
    BY <2>1 DEF RowsOfOwners
  <2> QED BY <1>2, <2>2, Same, InParts DEF Converts
<1>3. ASSUME NEW u \in Users, AccountGoes(u) PROVE Changes
  <2> DEFINE gk == {k \in Colls : Owns(u, k)}
  <2>1. users' = users \ {u} /\ Cascade(OwnedBy(u), gk)
    BY <1>3 DEF AccountGoes
  <2>2. OwnedBy(u) \in SUBSET Comics /\ \A c \in OwnedBy(u) : comics[c].owner \in Users \ users'
    BY <2>1 DEF OwnedBy
  <2>3. gk \in SUBSET Colls /\ \A k \in gk : colls[k].owner \notin users'
    BY <2>1 DEF Owns
  <2> HIDE DEF gk
  <2> QED BY <2>1, <2>2, <2>3, CascadeChanges
<1>4. ASSUME Restarts PROVE Changes
  BY <1>4, StillSame DEF Restarts
<1> QED BY <1>1, <1>2, <1>3, <1>4 DEF Elsewhere

LEMMA CheckingStays ==
  ASSUME NEW r \in Requests, Checking(r)
  PROVE  UNCHANGED rows
BY DEF Checking, GetComic, GetComicWithHidden, OwnedCollection, DownloadToken, ComicRowByID,
   SeesTags, FindsEnd, Opens, Query

\* What is an account's is changed by its own calls, or goes with what it
\* hangs on, however the calls run between one another: OwnedCollection and
\* CanDeleteComic are checked in one statement, the write is another.
THEOREM OwnersChange == Spec => OnlyOwnersChange
<1>1. IInv /\ [Next]_vars => [Changes]_vars
  <2> SUFFICES ASSUME IInv, Next PROVE Changes
    OBVIOUS
  <2>1. CASE \E r \in Requests, q \in Asks : Begins(r, q)
    BY <2>1, StillSame DEF Begins
  <2>2. CASE \E r \in Requests : Checking(r) \/ ComicWrite(r) \/ CollWrite(r)
    BY <2>2, StillSame, CheckingStays, ComicWriteChanges, CollWriteChanges
  <2>3. CASE Elsewhere
    BY <2>3, ElsewhereChanges
  <2> QED BY <2>1, <2>2, <2>3 DEF Next
<1> QED BY <1>1, Always, PTL DEF Spec, OnlyOwnersChange

-----------------------------------------------------------------------------
(* Who exposes what.                                                       *)

\* The collection shows the comic to everybody.
Exposes(k, c) == Live(k) /\ colls[k].shared /\ place[k][c] # None /\ colls[k].owner = comics[c].owner

Opened(c, u) == Here(c) /\ ~Sees(u, c) /\ Sees(u, c)'
Warranted(c) == ActsFor(comics[c].owner) \/ AdminReleases

\* A comic that stays as it is comes into sight by a collection.
LEMMA Opening ==
  ASSUME NEW c \in Comics, NEW u \in Users, Opened(c, u),
         comics'[c].source = comics[c].source, comics'[c].owner = comics[c].owner,
         comics'[c].hidden = comics[c].hidden
  PROVE  \E k \in Colls : ~Exposes(k, c) /\ Exposes(k, c)'
<1>1. ~SharedByOwner(c) /\ SharedByOwner(c)'
  BY DEF Opened, Sees, SeesHidden
<1>2. SharedByOwner(c) <=> \E k \in Colls : Exposes(k, c)
  BY DEF SharedByOwner, Exposes
<1>3. SharedByOwner(c)' <=> \E k \in Colls : Exposes(k, c)'
  BY DEF SharedByOwner, Exposes
<1> QED BY <1>1, <1>2, <1>3

LEMMA SameShuts ==
  ASSUME UNCHANGED <<colls, place>>, NEW c \in Comics, NEW u \in Users,
         comics'[c].source = comics[c].source, comics'[c].owner = comics[c].owner,
         comics'[c].hidden = comics[c].hidden
  PROVE  ~Opened(c, u)
<1>1. \A k \in Colls : Exposes(k, c)' = Exposes(k, c)
  BY DEF Exposes, Live
<1> QED BY <1>1, Opening

LEMMA CascadeShuts ==
  ASSUME IInv, NEW gc \in SUBSET Comics, NEW gk \in SUBSET Colls, Cascade(gc, gk),
         NEW c \in Comics, NEW u \in Users
  PROVE  ~Opened(c, u)
<1> SUFFICES ASSUME Opened(c, u) PROVE FALSE
  OBVIOUS
<1>1. comics'[c] = comics[c]
  BY DEF Opened, Sees, SeesHidden, Here, Cascade
<1>2. \A k \in Colls : Exposes(k, c)' => Exposes(k, c)
  <2> SUFFICES ASSUME NEW k \in Colls, Exposes(k, c)' PROVE Exposes(k, c)
    OBVIOUS
  <2>1. Live(k)' /\ colls'[k].shared /\ place'[k][c] # None /\ colls'[k].owner = comics'[c].owner
    BY DEF Exposes
  <2>2. k \notin gk /\ colls'[k] = Uncovered(k, gc) /\ place'[k][c] = place[k][c]
    BY <2>1 DEF Cascade, Live
  <2>3. Live(k)
    BY <2>1, <2>2 DEF Uncovered, Live
  <2>4. Uncovered(k, gc).owner = colls[k].owner /\ Uncovered(k, gc).shared = colls[k].shared
    BY <2>3, UncoveredIs
  <2> QED BY <1>1, <2>1, <2>2, <2>3, <2>4 DEF Exposes
<1> QED BY <1>1, <1>2, Opening

\* A write on one comic opens no other.
LEMMA OnRowShuts ==
  ASSUME IInv, NEW r \in Requests, NEW ok, NEW row, OnRow(r, ok, row), NEW c \in Comics, NEW u \in Users,
         Opened(c, u)
  PROVE  c = req[r].comic /\ Here(c) /\ ok /\ comics'[c] = row /\ Passes(r)
<1>1. UNCHANGED <<colls, place>>
  BY DEF OnRow
<1>2. comics'[c] # comics[c]
  BY <1>1, SameShuts
<1> QED BY <1>2 DEF OnRow, IInv, Stored

LEMMA AdminOpens ==
  ASSUME IInv, NEW r \in Requests, Passes(r), At(r, "unclaim") \/ At(r, "unhide")
  PROVE  AdminReleases
<1>1. Step(req[r]) \in AdminStep /\ Step(req[r]) # "idle"
  BY DEF At, Step, AdminStep
<1> QED BY <1>1, PassingActs, ByAdmins DEF AdminReleases

LEMMA ComicWriteOpens ==
  ASSUME IInv, NEW r \in Requests, ComicWrite(r), NEW c \in Comics, NEW u \in Users, Opened(c, u)
  PROVE  Warranted(c)
<1> DEFINE q == req[r]
<1>0. Here(c) => comics[c] \in Row
  BY RowOf
<1>1. ASSUME Claims(r) PROVE Warranted(c)
  <2> DEFINE row == comics[q.comic]  new == Reowned(row, "claimed", q.user)
             ok == row.source = "library" /\ q.user \in users
  <2>1. OnRow(r, ok, new)
    BY <1>1 DEF Claims, Reowned
  <2> HIDE DEF ok, new
  <2>2. c = q.comic /\ Here(c) /\ ok /\ comics'[c] = new
    BY <2>1, OnRowShuts
  <2> USE DEF ok, new
  <2>3. new.hidden = row.hidden
    BY <1>0, <2>2 DEF Reowned, Row
  <2> QED BY <2>2, <2>3 DEF Opened, Sees, SeesHidden, ServerWide
<1>2. ASSUME Unclaims(r) PROVE Warranted(c)
  <2>1. At(r, "unclaim") /\ \E ok, row : OnRow(r, ok, row)
    BY <1>2 DEF Unclaims
  <2>2. Passes(r)
    BY <2>1, OnRowShuts
  <2> QED BY <2>1, <2>2, AdminOpens DEF Warranted
<1>3. ASSUME Hides(r) PROVE Warranted(c)
  <2> DEFINE new == [comics[q.comic] EXCEPT !.hidden = At(r, "hide")]
  <2>1. OnRow(r, TRUE, new) /\ (At(r, "hide") \/ At(r, "unhide"))
    BY <1>3 DEF Hides
  <2> HIDE DEF new
  <2>2. c = q.comic /\ Here(c) /\ comics'[c] = new /\ Passes(r)
    BY <2>1, OnRowShuts
  <2> USE DEF new
  <2>3. CASE At(r, "hide")
    <3>1. new = [comics[c] EXCEPT !.hidden = TRUE]
      BY <2>2, <2>3
    <3>2. new.hidden = TRUE
      BY <1>0, <2>2, <3>1 DEF Row
    <3> QED BY <2>2, <3>2 DEF Opened, Sees
  <2>4. CASE At(r, "unhide")
    BY <2>2, <2>4, AdminOpens DEF Warranted
  <2> QED BY <2>1, <2>3, <2>4
<1>4. ASSUME Renames(r) PROVE Warranted(c)
  <2> DEFINE new == [comics[q.comic] EXCEPT !.title = q.user]
  <2>1. OnRow(r, TRUE, new)
    BY <1>4 DEF Renames
  <2> HIDE DEF new
  <2>2. c = q.comic /\ Here(c) /\ comics'[c] = new
    BY <2>1, OnRowShuts
  <2> USE DEF new
  <2>3. new.source = comics[c].source /\ new.owner = comics[c].owner /\ new.hidden = comics[c].hidden
    BY <1>0, <2>2 DEF Row
  <2>4. UNCHANGED <<colls, place>>
    BY <2>1 DEF OnRow
  <2> QED BY <2>2, <2>3, <2>4, SameShuts
<1>5. ASSUME Tag(r) \/ Links(r) \/ Unlinks(r) \/ PutsFile(r) PROVE Warranted(c)
  <2>1. UNCHANGED <<comics, colls, place>>
    BY <1>5 DEF Tag, Links, Unlinks, PutsFile, rows
  <2> QED BY <2>1, SameShuts
<1>6. ASSUME Drops(r) PROVE Warranted(c)
  <2>1. CASE Here(q.comic)
    <3>1. Cascade({q.comic}, {}) /\ q.comic \in Comics
      BY <1>6, <2>1 DEF Drops, Here
    <3> QED BY <3>1, CascadeShuts
  <2>2. CASE ~Here(q.comic)
    <3>1. UNCHANGED <<comics, colls, place>>
      BY <1>6, <2>2 DEF Drops, rows
    <3> QED BY <3>1, SameShuts
  <2> QED BY <2>1, <2>2
<1>7. ASSUME Files(r) PROVE Warranted(c)
  <2>1. comics[q.comic] = None
    BY <1>7, UnderWay DEF Files, At, Step, ReadyIn, FilingIn
  <2>2. comics'[c] = comics[c] /\ UNCHANGED <<colls, place>>
    BY <1>7, <2>1 DEF Files, Opened, Here, IInv, Stored
  <2> QED BY <2>2, SameShuts
<1> QED BY <1>1, <1>2, <1>3, <1>4, <1>5, <1>6, <1>7 DEF ComicWrite

LEMMA CollWriteOpens ==
  ASSUME IInv, NEW r \in Requests, CollWrite(r), NEW c \in Comics, NEW u \in Users, Opened(c, u)
  PROVE  Warranted(c)
<1> DEFINE q == req[r]
<1>1. ASSUME Discards(r) PROVE Warranted(c)
  <2>1. CASE Live(q.coll)
    <3>1. Cascade({}, {q.coll}) /\ q.coll \in Colls
      BY <1>1, <2>1 DEF Discards, Live
    <3> QED BY <3>1, CascadeShuts
  <2>2. CASE ~Live(q.coll)
    <3>1. UNCHANGED <<comics, colls, place>>
      BY <1>1, <2>2 DEF Discards, rows
    <3> QED BY <3>1, SameShuts
  <2> QED BY <2>1, <2>2
<1>2. CASE ~Discards(r)
  <2>1. comics' = comics
    BY <1>2 DEF CollWrite, Creates, Shares, Covers, Inserts, Removes, Reorders
  <2>2. PICK k \in Colls : ~Exposes(k, c) /\ Exposes(k, c)'
    BY <2>1, Opening
  <2>3. Live(k)' /\ colls'[k].shared /\ place'[k][c] # None /\ colls'[k].owner = comics[c].owner
    BY <2>1, <2>2 DEF Exposes
  <2>4. ASSUME Creates(r) PROVE FALSE
    <3>1. place' = place /\ (colls'[k] = colls[k] \/ colls[k] = None)
      BY <2>4 DEF Creates, IInv, Stored
    <3>2. Live(k)
      BY <2>3, <3>1 DEF IInv, Linked, NothingDangles
    <3> QED BY <2>2, <2>3, <3>1, <3>2 DEF Exposes, Live
  <2>5. ASSUME Covers(r) PROVE FALSE
    <3>1. place' = place
      BY <2>5 DEF Covers
    <3>2. Live(k)
      BY <2>3, <3>1 DEF IInv, Linked, NothingDangles
    <3>3. colls[k] \in Coll
      BY <3>2, CollOf
    <3>4. colls'[k].shared = colls[k].shared /\ colls'[k].owner = colls[k].owner
      BY <2>5, <3>3 DEF Covers, Coll, IInv, Stored
    <3> QED BY <2>2, <2>3, <3>1, <3>2, <3>4 DEF Exposes
  <2>6. ASSUME Shares(r) PROVE Warranted(c)
    <3>1. place' = place /\ Step(q) \in CollStep /\ Passes(r)
      BY <2>6 DEF Shares, At, Step, CollStep
    <3>2. Live(k)
      BY <2>3, <3>1 DEF IInv, Linked, NothingDangles
    <3>3. colls[k] \in Coll
      BY <3>2, CollOf
    <3>4. colls'[k].owner = colls[k].owner /\ (k # q.coll => colls'[k] = colls[k])
      BY <2>6, <3>3 DEF Shares, Coll, IInv, Stored
    <3>5. k = q.coll
      BY <2>2, <2>3, <3>1, <3>2, <3>4 DEF Exposes
    <3> QED BY <2>3, <3>1, <3>2, <3>4, <3>5, ByOwner DEF Warranted
  <2>7. ASSUME Inserts(r) PROVE Warranted(c)
    <3>1. colls' = colls /\ Step(q) \in CollStep /\ Passes(r)
      BY <2>7 DEF Inserts, At, Step, CollStep
    <3>2. Live(k)
      BY <2>3, <3>1 DEF Live
    <3>3. place'[k][c] = place[k][c] \/ k = q.coll
      BY <2>7 DEF Inserts, IInv, Stored
    <3>4. k = q.coll
      BY <2>2, <2>3, <3>1, <3>2, <3>3 DEF Exposes
    <3> QED BY <2>3, <3>1, <3>2, <3>4, ByOwner DEF Warranted
  <2>8. ASSUME Removes(r) \/ Reorders(r) PROVE FALSE
    <3>1. colls' = colls
      BY <2>8 DEF Removes, Reorders
    <3>2. place[k][c] # None
      <4>1. ASSUME Removes(r) PROVE place[k][c] # None
        BY <2>3, <4>1 DEF Removes, IInv, Stored
      <4> QED BY <2>3, <2>8, <4>1, ReordersMoves
    <3> QED BY <2>2, <2>3, <3>1, <3>2 DEF Exposes, Live
  <2> QED BY <1>2, <2>4, <2>5, <2>6, <2>7, <2>8 DEF CollWrite
<1> QED BY <1>1, <1>2

LEMMA ElsewhereOpens ==
  ASSUME IInv, Elsewhere, NEW c \in Comics, NEW u \in Users, Opened(c, u)
  PROVE  FALSE
<1>1. ASSUME NEW l \in links, Expires(l) PROVE FALSE
  BY <1>1, SameShuts DEF Expires
<1>2. ASSUME NEW d \in Comics, Converts(d) PROVE FALSE
  <2>1. comics'[c] = comics[c] /\ UNCHANGED <<colls, place>>
    BY <1>2 DEF Converts, Opened, Here, IInv, Stored
  <2> QED BY <2>1, SameShuts
<1>3. ASSUME NEW v \in Users, AccountGoes(v) PROVE FALSE
  <2> DEFINE gk == {k \in Colls : Owns(v, k)}
  <2>1. Cascade(OwnedBy(v), gk) /\ OwnedBy(v) \in SUBSET Comics /\ gk \in SUBSET Colls
    BY <1>3 DEF AccountGoes, OwnedBy
  <2> HIDE DEF gk
  <2> QED BY <2>1, CascadeShuts
<1>4. ASSUME Restarts PROVE FALSE
  BY <1>4, SameShuts DEF Restarts, rows
<1> QED BY <1>1, <1>2, <1>3, <1>4 DEF Elsewhere

\* A comic comes into sight by its owner's act or an admin's release alone
\* (visibleComics, accessors.go), however the calls run between one another.
THEOREM OwnersExpose == Spec => OnlyOwnersExpose
<1>1. IInv /\ [Next]_vars => [ComesIntoSight]_vars
  <2> SUFFICES ASSUME IInv, Next PROVE ComesIntoSight
    OBVIOUS
  <2> SUFFICES ASSUME NEW c \in Comics, NEW u \in Users, Opened(c, u) PROVE Warranted(c)
    BY DEF ComesIntoSight, Opened, Warranted
  <2>1. CASE UNCHANGED rows
    BY <2>1, SameShuts DEF rows
  <2>2. CASE \E r \in Requests, q \in Asks : Begins(r, q)
    BY <2>1, <2>2 DEF Begins
  <2>3. CASE \E r \in Requests : Checking(r) \/ ComicWrite(r) \/ CollWrite(r)
    BY <2>1, <2>3, CheckingStays, ComicWriteOpens, CollWriteOpens
  <2>4. CASE Elsewhere
    BY <2>4, ElsewhereOpens
  <2> QED BY <2>2, <2>3, <2>4 DEF Next
<1> QED BY <1>1, Always, PTL DEF Spec, OnlyOwnersExpose

-----------------------------------------------------------------------------
(* Calls that nothing overtakes: what they have read or checked still holds. *)

Moves(r) == Checking(r) \/ ComicWrite(r) \/ CollWrite(r)

\* A step of a call reads something, or lets the call go on or ends it.
LEMMA Kinds ==
  ASSUME NEW r \in Requests, Moves(r)
  PROVE  SeesTags(r) \/ FindsEnd(r) \/ Passes(r) \/ Ends(r)
<1> DEFINE goes == Passes(r) \/ Ends(r)
<1>1. ASSUME NEW step, NEW ok, Query(r, step, ok) PROVE goes
  BY <1>1 DEF Query, Checks
<1>2. ASSUME NEW ok, NEW row, OnRow(r, ok, row) PROVE goes
  BY <1>2 DEF OnRow
<1> HIDE DEF goes
<1>3. ASSUME Checking(r) PROVE SeesTags(r) \/ FindsEnd(r) \/ goes
  <2>1. Opens(r) => goes
    BY DEF Opens, goes
  <2>2. GetComic(r) \/ GetComicWithHidden(r) \/ OwnedCollection(r) \/ DownloadToken(r) \/ ComicRowByID(r) => goes
    BY <1>1 DEF GetComic, GetComicWithHidden, OwnedCollection, DownloadToken, ComicRowByID
  <2> QED BY <1>3, <2>1, <2>2 DEF Checking
<1>4. ASSUME ComicWrite(r) PROVE goes
  <2>1. Claims(r) \/ Unclaims(r) \/ Hides(r) \/ Renames(r) => goes
    BY <1>2 DEF Claims, Unclaims, Hides, Renames
  <2>2. Tag(r) \/ Links(r) \/ Drops(r) => goes
    BY DEF Tag, Links, Drops, goes
  <2>3. Unlinks(r) \/ PutsFile(r) \/ Files(r) => goes
    BY DEF Unlinks, PutsFile, Files, goes
  <2> QED BY <1>4, <2>1, <2>2, <2>3 DEF ComicWrite
<1>5. ASSUME CollWrite(r) PROVE goes
  BY <1>5 DEF CollWrite, Creates, Shares, Covers, Discards, Inserts, Removes, Reorders, goes
<1> QED BY <1>3, <1>4, <1>5 DEF Moves, goes

\* The two reads a call keeps.
LEMMA KeepsEnd ==
  ASSUME IInv, NEW r \in Requests, FindsEnd(r)
  PROVE  \E p \in EndOf(req[r].coll), n \in Nat : n = req[r].at + 1 /\ req'[r] = Ended(req[r], n, p)
<1> DEFINE q == req[r]
<1>1. PICK p \in EndOf(q.coll) : req' = [req EXCEPT ![r] = [req[r] EXCEPT !.at = @ + 1, !.end = p]]
  BY DEF FindsEnd
<1>2. q.at \in Nat
  BY UnderWay, CallFacts
<1>3. PICK n \in Nat : n = q.at + 1
  BY <1>2
<1>4. req' = [req EXCEPT ![r] = Ended(q, n, p)]
  BY <1>1, <1>3 DEF IInv, Asking, Ended
<1>5. req'[r] = Ended(q, n, p)
  BY <1>4 DEF IInv, Asking
<1> QED BY <1>3, <1>5

LEMMA KeepsTags ==
  ASSUME IInv, NEW r \in Requests, SeesTags(r), req'[r] # Idle
  PROVE  /\ req[r].at = 1 /\ Sees(req[r].user, req[r].comic)
         /\ req'[r] = Retold(req[r], 2, Merged(tags[req[r].user][req[r].comic], req[r].add, req[r].cut))
<1> DEFINE q == req[r]  a == Retold(q, 2, Merged(tags[q.user][q.comic], q.add, q.cut))
<1>1. q.at = 1
  BY UnderWay DEF SeesTags, At, Fits
<1>2. Sees(q.user, q.comic)
  <2>1. ~Sees(q.user, q.comic) => req' = [req EXCEPT ![r] = Idle]
    BY DEF SeesTags, Ends
  <2> QED BY <2>1 DEF IInv, Asking
<1>3. req' = [req EXCEPT ![r] = a]
  BY <1>2 DEF SeesTags, Retold
<1> QED BY <1>1, <1>2, <1>3 DEF IInv, Asking

\* A call that is not where it was has begun, been cut off or made a step.
LEMMA Course ==
  ASSUME IInv, Next, NEW r \in Requests
  PROVE  req'[r] = req[r] \/ (\E q \in Asks : Begins(r, q)) \/ Moves(r) \/ Restarts
<1>0. req \in [Requests -> Call]
  BY DEF IInv, Asking
<1>1. ASSUME NEW s \in Requests, Moves(s), s # r PROVE req'[r] = req[r]
  <2>1. CASE Passes(s) \/ Ends(s)
    BY <1>0, <1>1, <2>1 DEF Passes, Ends
  <2>2. CASE SeesTags(s)
    <3>1. CASE Sees(req[s].user, req[s].comic)
      BY <1>0, <1>1, <2>2, <3>1 DEF SeesTags
    <3>2. CASE ~Sees(req[s].user, req[s].comic)
      BY <1>0, <1>1, <2>2, <3>2 DEF SeesTags, Ends
    <3> QED BY <3>1, <3>2
  <2>3. CASE FindsEnd(s)
    BY <1>0, <1>1, <2>3 DEF FindsEnd
  <2> QED BY <1>1, <2>1, <2>2, <2>3, Kinds
<1>2. ASSUME NEW s \in Requests, NEW q \in Asks, Begins(s, q), s # r PROVE req'[r] = req[r]
  BY <1>0, <1>2 DEF Begins
<1>3. ASSUME Elsewhere PROVE req'[r] = req[r] \/ Restarts
  <2>1. \A l : Expires(l) => req' = req
    BY DEF Expires
  <2>2. \A c : Converts(c) => req' = req
    BY DEF Converts
  <2>3. \A u : AccountGoes(u) => req' = req
    BY DEF AccountGoes
  <2> QED BY <1>3, <2>1, <2>2, <2>3 DEF Elsewhere
<1> QED BY <1>1, <1>2, <1>3 DEF Next, Moves

\* A step is the one the call is at.
LEMMA Which ==
  ASSUME NEW r \in Requests, Moves(r)
  PROVE  /\ At(r, "see") => GetComic(r)
         /\ At(r, "own") => OwnedCollection(r)
         /\ At(r, "seeTags") => SeesTags(r)
         /\ At(r, "end") => FindsEnd(r)
         /\ At(r, "tag") => Tag(r)
<1>1. ASSUME Checking(r)
      PROVE  /\ At(r, "see") => GetComic(r)
             /\ At(r, "own") => OwnedCollection(r)
             /\ At(r, "seeTags") => SeesTags(r)
             /\ At(r, "end") => FindsEnd(r)
             /\ ~At(r, "tag")
  <2> USE DEF At
  <2>1. GetComic(r) => At(r, "see")
    BY DEF GetComic, Query
  <2>2. GetComicWithHidden(r) => At(r, "seeHidden")
    BY DEF GetComicWithHidden, Query
  <2>3. OwnedCollection(r) => At(r, "own")
    BY DEF OwnedCollection, Query
  <2>4. DownloadToken(r) => At(r, "redeem")
    BY DEF DownloadToken, Query
  <2>5. ComicRowByID(r) => At(r, "row") \/ At(r, "mayRename") \/ At(r, "mayDelete")
    BY DEF ComicRowByID, Query
  <2>6. SeesTags(r) => At(r, "seeTags")
    BY DEF SeesTags
  <2>7. FindsEnd(r) => At(r, "end")
    BY DEF FindsEnd
  <2>8. Opens(r) => At(r, "open")
    BY DEF Opens
  <2> QED BY <1>1, <2>1, <2>2, <2>3, <2>4, <2>5, <2>6, <2>7, <2>8 DEF Checking
<1>2. ASSUME ComicWrite(r)
      PROVE  /\ ~At(r, "see") /\ ~At(r, "own") /\ ~At(r, "seeTags") /\ ~At(r, "end")
             /\ At(r, "tag") => Tag(r)
  BY <1>2 DEF ComicWrite, Claims, Unclaims, Hides, Renames, Tag, Links, Drops, Unlinks, PutsFile, Files, At
<1>3. ASSUME CollWrite(r)
      PROVE  ~At(r, "see") /\ ~At(r, "own") /\ ~At(r, "seeTags") /\ ~At(r, "end") /\ ~At(r, "tag")
  BY <1>3 DEF CollWrite, Creates, Shares, Covers, Discards, Inserts, Removes, Reorders, At
<1> QED BY <1>1, <1>2, <1>3 DEF Moves

\* A call that goes on is the call it was, one step further.
LEMMA Carries ==
  ASSUME IInv, NEW r \in Requests, Moves(r), req'[r] # Idle
  PROVE  /\ req'[r].op = req[r].op /\ req'[r].user = req[r].user /\ req'[r].comic = req[r].comic
         /\ req'[r].coll = req[r].coll /\ req'[r].cut = req[r].cut
         /\ req'[r].at = req[r].at + 1
         /\ ~At(r, "seeTags") => req'[r].add = req[r].add
<1> DEFINE q == req[r]
<1>0. req \in [Requests -> Call] /\ q \in Call /\ Len(q.op) \in Nat /\ q.at \in Nat
  BY UnderWay, CallFacts DEF IInv, Asking
<1>1. ASSUME req'[r] = Onward(q)
      PROVE  /\ req'[r].op = q.op /\ req'[r].user = q.user /\ req'[r].comic = q.comic
             /\ req'[r].coll = q.coll /\ req'[r].cut = q.cut
             /\ req'[r].at = q.at + 1 /\ req'[r].add = q.add
  BY <1>0, <1>1 DEF Onward, Call
<1>2. ASSUME Passes(r) \/ Ends(r) PROVE req'[r] = Onward(q)
  BY <1>0, <1>2 DEF Passes, Ends, Advanced, Onward
<1>3. CASE SeesTags(r)
  <2> DEFINE a == Retold(q, 2, Merged(tags[q.user][q.comic], q.add, q.cut))
  <2>1. req'[r] = a /\ q.at = 1 /\ At(r, "seeTags")
    BY <1>3, KeepsTags DEF SeesTags
  <2>2. a.op = q.op /\ a.user = q.user /\ a.comic = q.comic /\ a.coll = q.coll /\ a.cut = q.cut /\ a.at = 2
    BY <1>0 DEF Retold, Call
  <2> HIDE DEF a
  <2> QED BY <2>1, <2>2
<1>4. CASE FindsEnd(r)
  <2>1. PICK p \in EndOf(q.coll), n \in Nat : n = q.at + 1 /\ req'[r] = Ended(q, n, p)
    BY <1>4, KeepsEnd
  <2> DEFINE a == Ended(q, n, p)
  <2>2. /\ a.op = q.op /\ a.user = q.user /\ a.comic = q.comic /\ a.coll = q.coll /\ a.cut = q.cut
        /\ a.at = n /\ a.add = q.add
    BY <1>0 DEF Ended, Call
  <2>3. req'[r] = a
    BY <2>1
  <2> HIDE DEF a
  <2> QED BY <2>1, <2>2, <2>3
<1>5. CASE ~SeesTags(r) /\ ~FindsEnd(r)
  <2>1. Passes(r) \/ Ends(r)
    BY <1>5, Kinds
  <2> QED BY <1>1, <1>2, <2>1
<1> QED BY <1>3, <1>4, <1>5

\* A call that has just begun.
LEMMA Begun ==
  ASSUME IInv, NEW r \in Requests, NEW q \in Asks, Begins(r, q)
  PROVE  req'[r] = q /\ q.at = 1 /\ Asked(q) /\ UNCHANGED <<rows, muddled>>
BY AsksAsked DEF Begins, Fresh, IInv, Asking

LEMMA CutOff ==
  ASSUME NEW r \in Requests, Restarts
  PROVE  req'[r] = Idle /\ UNCHANGED <<rows, muddled>>
BY DEF Restarts

-----------------------------------------------------------------------------
(* A retag, and an edit of a collection.                                   *)

\* A retag that nothing has overtaken will write what the account has now,
\* but for what it drops.
Retelling == \A r \in Requests :
  req[r].op = tagComics /\ req[r].at > 1 /\ r \notin raced =>
    /\ req[r].comic \in Comics
    /\ tags[req[r].user][req[r].comic] \ req[r].cut \subseteq req[r].add

LEMMA RetellingKept == IInv /\ Retelling /\ [Next]_vars => Retelling'
<1> SUFFICES ASSUME IInv, Retelling, Next PROVE Retelling'
  BY DEF Retelling, vars, rows
<1> SUFFICES ASSUME NEW r \in Requests, req'[r].op = tagComics, req'[r].at > 1, r \notin raced'
             PROVE  /\ req'[r].comic \in Comics
                    /\ tags'[req'[r].user][req'[r].comic] \ req'[r].cut \subseteq req'[r].add
  BY DEF Retelling
<1>0. /\ tagComics = <<"seeTags", "see", "tag">> /\ DOMAIN tagComics = 1..3 /\ Idle.at = 1
  BY DEF tagComics, Idle
<1>1. req'[r] # Idle
  BY <1>0
<1>2. r \notin raced /\ ~Overtaken(r)
  BY <1>1 DEF Next, Observes
<1>3. CASE req'[r] = req[r]
  BY <1>2, <1>3 DEF Retelling, Overtaken
<1>4. ASSUME NEW q \in Asks, Begins(r, q) PROVE FALSE
  BY <1>4, Begun
<1>5. CASE Restarts
  BY <1>1, <1>5, CutOff
<1>6. CASE Moves(r)
  <2>1. /\ req[r].op = tagComics /\ req'[r].user = req[r].user /\ req'[r].comic = req[r].comic
        /\ req'[r].cut = req[r].cut /\ req'[r].at = req[r].at + 1
        /\ ~At(r, "seeTags") => req'[r].add = req[r].add
    BY <1>1, <1>6, Carries
  <2>2. req[r].at \in 1..3
    BY <1>0, <2>1, UnderWay
  <2>3. CASE req[r].at = 1
    <3>1. SeesTags(r)
      BY <1>0, <1>6, <2>1, <2>3, Which DEF At
    <3>2. /\ Sees(req[r].user, req[r].comic) /\ tags' = tags
          /\ req'[r] = Retold(req[r], 2, Merged(tags[req[r].user][req[r].comic], req[r].add, req[r].cut))
      BY <1>1, <3>1, KeepsTags DEF SeesTags, rows
    <3>3. req'[r].add = Merged(tags[req[r].user][req[r].comic], req[r].add, req[r].cut)
      BY <3>2, UnderWay DEF Retold, Call
    <3> QED BY <2>1, <3>2, <3>3 DEF Merged, Sees, SeesHidden, Here
  <2>4. CASE req[r].at > 1
    <3>1. ~At(r, "seeTags")
      BY <1>0, <2>1, <2>2, <2>4 DEF At
    <3>2. tags'[req[r].user][req[r].comic] = tags[req[r].user][req[r].comic]
      BY <1>2, <2>1, <2>4 DEF Overtaken
    <3> QED BY <1>2, <2>1, <2>4, <3>1, <3>2 DEF Retelling
  <2> QED BY <2>2, <2>3, <2>4
<1> QED BY <1>3, <1>4, <1>5, <1>6, Course

\* tagComics (mcp/tools.go) drops only what it was asked to drop, unless the
\* account's tags change between its read and its write.
THEOREM RetagsCarryOver == Spec => RetagsKeep
<1>1. Init => Retelling
  BY DEF Init, Retelling, Idle
<1>2. IInv /\ Retelling /\ [Next]_vars => [\A r \in Requests : Retags(r)]_vars
  <2> SUFFICES ASSUME IInv, Retelling, Next, NEW r \in Requests,
                      At(r, "tag"), req[r].op = tagComics, Acts(r), r \notin raced
               PROVE  tags[req[r].user][req[r].comic] \ tags'[req[r].user][req[r].comic] \subseteq req[r].cut
    BY DEF Retags
  <2>0. /\ tagComics = <<"seeTags", "see", "tag">> /\ DOMAIN tagComics = 1..3
    BY DEF tagComics
  <2>1. req[r].at \in 1..3 /\ req[r].at > 1
    BY <2>0, UnderWay DEF At
  <2>2. req[r].comic \in Comics /\ tags[req[r].user][req[r].comic] \ req[r].cut \subseteq req[r].add
    BY <2>1 DEF Retelling
  <2>3. CASE UNCHANGED tags
    BY <2>3
  <2>4. ASSUME Tag(r), ~UNCHANGED tags
        PROVE  tags'[req[r].user][req[r].comic] = req[r].add
    <3>1. tags' = [tags EXCEPT ![req[r].user][req[r].comic] = req[r].add]
      BY <2>4 DEF Tag, Tagged
    <3>2. tags \in [Users -> [Comics -> SUBSET Tags]] /\ req[r].user \in Users
      <4>1. req[r].user \notin Users => tags' = tags
        BY <3>1 DEF IInv, Stored
      <4> QED BY <2>4, <4>1 DEF IInv, Stored
    <3> QED BY <2>2, <3>1, <3>2
  <2>5. ASSUME NEW q \in Asks, Begins(r, q) PROVE UNCHANGED tags
    BY <2>5 DEF Begins, rows
  <2>6. Restarts => UNCHANGED tags
    BY DEF Restarts, rows
  <2> QED BY <2>2, <2>3, <2>4, <2>5, <2>6, Course, Which DEF Acts
<1>3. Spec => []Retelling
  BY <1>1, RetellingKept, Always, PTL DEF Spec
<1> QED BY <1>2, <1>3, Always, PTL DEF Spec, RetagsKeep

\* An edit that nothing has overtaken reaches what it has checked.  Between its
\* checks, the collection may still go.
Landing == \A r \in Requests :
  /\ req[r].op = updateCollection /\ req[r].at >= 3 /\ r \notin raced
  /\ req[r].at >= 4 \/ Owns(req[r].user, req[r].coll)
  => Reaches(req[r])

\* A collection that is gone stays gone.
LEMMA GoneStays ==
  ASSUME IInv, Next, NEW k \in Colls, colls[k] = Gone
  PROVE  colls'[k] = Gone
<1>0. ~Live(k) /\ colls \in [Colls -> Coll \cup {None, Gone}]
  BY DEF Live, IInv, Stored
<1>1. ASSUME NEW gc, NEW gk, Cascade(gc, gk) PROVE colls'[k] = Gone
  BY <1>0, <1>1 DEF Cascade, Uncovered
<1>2. ASSUME NEW r \in Requests, Checking(r) PROVE colls'[k] = Gone
  BY <1>2, CheckingStays DEF rows
<1>3. ASSUME NEW r \in Requests, ComicWrite(r) PROVE colls'[k] = Gone
  <2>1. Drops(r) => colls'[k] = Gone
    BY <1>1 DEF Drops, rows
  <2>2. Claims(r) \/ Unclaims(r) \/ Hides(r) \/ Renames(r) => colls' = colls
    BY DEF Claims, Unclaims, Hides, Renames, OnRow
  <2>3. Tag(r) \/ Links(r) \/ Unlinks(r) \/ PutsFile(r) \/ Files(r) => colls' = colls
    BY DEF Tag, Links, Unlinks, PutsFile, Files, rows
  <2> QED BY <1>3, <2>1, <2>2, <2>3 DEF ComicWrite
<1>4. ASSUME NEW r \in Requests, CollWrite(r) PROVE colls'[k] = Gone
  <2>1. Discards(r) => colls'[k] = Gone
    BY <1>1 DEF Discards, rows
  <2>2. Creates(r) => colls'[k] = Gone
    BY <1>0, Distinct DEF Creates
  <2>3. Shares(r) \/ Covers(r) => colls'[k] = Gone
    BY <1>0 DEF Shares, Covers
  <2>4. Inserts(r) \/ Removes(r) \/ Reorders(r) => colls' = colls
    BY DEF Inserts, Removes, Reorders
  <2> QED BY <1>4, <2>1, <2>2, <2>3, <2>4 DEF CollWrite
<1>5. ASSUME Elsewhere PROVE colls'[k] = Gone
  <2>1. \A l : Expires(l) => colls' = colls
    BY DEF Expires
  <2>2. \A c : Converts(c) => colls' = colls
    BY DEF Converts
  <2>3. \A u : AccountGoes(u) => colls'[k] = Gone
    BY <1>1 DEF AccountGoes
  <2>4. Restarts => colls' = colls
    BY DEF Restarts, rows
  <2> QED BY <1>5, <2>1, <2>2, <2>3, <2>4 DEF Elsewhere
<1>6. ASSUME NEW r \in Requests, NEW q \in Asks, Begins(r, q) PROVE colls'[k] = Gone
  BY <1>6 DEF Begins, rows
<1> QED BY <1>2, <1>3, <1>4, <1>5, <1>6 DEF Next

LEMMA LandingKept == IInv /\ Landing /\ [Next]_vars => Landing'
<1> SUFFICES ASSUME IInv, Landing, Next PROVE Landing'
  BY DEF Landing, Reaches, Sees, SeesHidden, SharedByOwner, Owns, Here, Live, vars, rows
<1> SUFFICES ASSUME NEW r \in Requests, req'[r].op = updateCollection, req'[r].at >= 3, r \notin raced',
                    req'[r].at >= 4 \/ Owns(req[r].user, req[r].coll)'
             PROVE  Reaches(req[r])'
  BY DEF Landing
<1>0. /\ updateCollection = <<"own", "see", "own", "share", "own", "see", "cover">>
      /\ DOMAIN updateCollection = 1..7 /\ Idle.at = 1
  BY DEF updateCollection, Idle
<1>1. req'[r] # Idle
  BY <1>0
<1>2. r \notin raced /\ ~Overtaken(r)
  BY <1>1 DEF Next, Observes
<1>3. req[r].op = updateCollection /\ Reaches(req[r]) => Reaches(req[r])'
  BY <1>2 DEF Overtaken
<1>4. CASE req'[r] = req[r]
  <2>1. CASE req[r].at >= 4
    BY <1>2, <1>3, <1>4, <2>1 DEF Landing
  <2>2. CASE Owns(req[r].user, req[r].coll)'
    <3>1. Live(req[r].coll)'
      BY <2>2 DEF Owns
    <3>2. OwnedIn(req[r], colls)
      <4>1. req[r].op[1] = "own" /\ 1 \in 1..(req[r].at - 1)
        BY <1>0, <1>4, UnderWay
      <4> QED BY <4>1, UnderWay DEF OwnsIn
    <3>3. colls[req[r].coll] # Gone
      BY <1>4, <3>1, <3>2, GoneStays DEF Live, OwnedIn
    <3>4. Owns(req[r].user, req[r].coll)
      BY <3>2, <3>3, Distinct DEF Owns, Live, OwnedIn
    <3> QED BY <1>2, <1>3, <1>4, <3>4 DEF Landing
  <2> QED BY <1>4, <2>1, <2>2
<1>5. ASSUME NEW q \in Asks, Begins(r, q) PROVE FALSE
  BY <1>5, Begun
<1>6. CASE Restarts
  BY <1>1, <1>6, CutOff
<1>7. CASE Moves(r)
  <2>1. /\ req[r].op = updateCollection /\ req'[r].user = req[r].user /\ req'[r].comic = req[r].comic
        /\ req'[r].coll = req[r].coll /\ req'[r].at = req[r].at + 1
    BY <1>1, <1>7, Carries
  <2>2. req[r].at \in 1..7 /\ req[r].at >= 2
    BY <1>0, <2>1, UnderWay
  <2>3. CASE req[r].at = 2
    <3>1. GetComic(r)
      BY <1>0, <1>7, <2>1, <2>3, Which DEF At
    <3>2. Sees(req[r].user, req[r].comic) /\ colls' = colls
      BY <1>1, <3>1 DEF GetComic, Query, Checks, Ends, IInv, Asking, rows
    <3>3. Owns(req[r].user, req[r].coll)
      BY <2>1, <2>3, <3>2 DEF Owns, Live
    <3> QED BY <1>3, <2>1, <3>2, <3>3 DEF Reaches
  <2>4. CASE req[r].at = 3
    <3>1. OwnedCollection(r)
      BY <1>0, <1>7, <2>1, <2>4, Which DEF At
    <3>2. Owns(req[r].user, req[r].coll)
      BY <1>1, <3>1 DEF OwnedCollection, Query, Checks, Ends, IInv, Asking
    <3> QED BY <1>2, <1>3, <2>1, <2>4, <3>2 DEF Landing
  <2>5. CASE req[r].at >= 4
    BY <1>2, <1>3, <2>1, <2>2, <2>5 DEF Landing
  <2> QED BY <2>2, <2>3, <2>4, <2>5
<1> QED BY <1>4, <1>5, <1>6, <1>7, Course

\* Once updateCollection (mcp/tools.go) has written the first half of an edit,
\* the second is not refused, unless what it had checked changed.
THEOREM EditsLand == Spec => []EditsLandWhole
<1>1. Init => Landing
  BY DEF Init, Landing, Idle
<1>2. IInv /\ Landing => EditsLandWhole
  <2> SUFFICES ASSUME IInv, Landing, NEW r \in Requests, req[r].op = updateCollection,
                      Shared(req[r]), Refused(r), r \notin raced
               PROVE  FALSE
    BY DEF EditsLandWhole
  <2>0. /\ updateCollection = <<"own", "see", "own", "share", "own", "see", "cover">>
        /\ DOMAIN updateCollection = 1..7
    BY DEF updateCollection
  <2>1. req[r].at \in 1..7
    BY <2>0, UnderWay
  <2>2. req[r].at >= 4
    <3>1. PICK i \in 1..(req[r].at - 1) : updateCollection[i] = "share"
      BY DEF Shared
    <3>2. i \notin {1, 2, 3}
      BY <2>0, <3>1
    <3> QED BY <2>1, <3>1, <3>2
  <2>3. Reaches(req[r])
    BY <2>1, <2>2 DEF Landing
  <2> QED BY <2>3 DEF Refused, Reaches, Owns, Sees, SeesHidden
<1>3. Spec => []Landing
  BY <1>1, LandingKept, Always, PTL DEF Spec
<1> QED BY <1>2, <1>3, Always, PTL

-----------------------------------------------------------------------------
(* The order of a collection.                                              *)

\* An INSERT that nothing has overtaken goes past every place that is taken.
Appending == \A r \in Requests :
  At(r, "insert") /\ r \notin raced => \A p \in Places(req[r].coll) : p < req[r].end

LEMMA AppendingKept == IInv /\ Appending /\ [Next]_vars => Appending'
<1> SUFFICES ASSUME IInv, Appending, Next PROVE Appending'
  BY DEF Appending, At, Places, vars, rows
<1> SUFFICES ASSUME NEW r \in Requests, Step(req'[r]) = "insert", r \notin raced'
             PROVE  \A c \in Comics : place'[req'[r].coll][c] # None =>
                      place'[req'[r].coll][c] < req'[r].end
  BY DEF Appending, At, Places, Step
<1>1. req'[r] # Idle
  BY IdleQuiet
<1>2. r \notin raced /\ ~Overtaken(r)
  BY <1>1 DEF Next, Observes
<1>3. CASE req'[r] = req[r]
  <2>1. At(r, "insert") /\ place'[req[r].coll] = place[req[r].coll]
    BY <1>2, <1>3 DEF Overtaken, At, Step
  <2> QED BY <1>2, <1>3, <2>1 DEF Appending, Places
<1>4. ASSUME NEW q \in Asks, Begins(r, q) PROVE FALSE
  <2>1. req'[r] = q /\ q.at = 1 /\ Fits(q.op) /\ 1 \in DOMAIN q.op /\ 0 \notin DOMAIN q.op
    <3>1. req'[r] = q /\ q.at = 1 /\ Asked(q) /\ q \in Call
      BY <1>4, Begun DEF Asked
    <3> QED BY <3>1, CallFacts DEF Asked
  <2> QED BY <2>1 DEF Fits, Follows, Step
<1>5. CASE Restarts
  BY <1>1, <1>5, CutOff
<1>6. CASE Moves(r)
  <2>1. req'[r].op = req[r].op /\ req'[r].coll = req[r].coll /\ req'[r].at = req[r].at + 1
    BY <1>1, <1>6, Carries
  <2>2. At(r, "end")
    <3>1. req'[r].at \in DOMAIN req[r].op
      <4>1. IInv'
        BY StepKeeps
      <4>2. \A s \in Requests : req'[s].at \in DOMAIN req'[s].op
        BY <4>1 DEF IInv, Asking, Asked
      <4> QED BY <2>1, <4>2
    <3>2. req[r].op[req'[r].at - 1] = "end"
      BY <2>1, <3>1, UnderWay DEF Fits, Follows, Step
    <3>3. req'[r].at - 1 = req[r].at
      BY <2>1, UnderWay, CallFacts
    <3> QED BY <3>2, <3>3 DEF At
  <2>3. FindsEnd(r)
    BY <1>6, <2>2, Which
  <2>4. PICK p \in EndOf(req[r].coll), n \in Nat : n = req[r].at + 1 /\ req'[r] = Ended(req[r], n, p)
    BY <2>3, KeepsEnd
  <2>5. req'[r].end = p /\ p \in Nat /\ IsLast(req[r].coll, p - 1)
    BY <2>4, UnderWay, SharingAssumption DEF Ended, Call, EndOf, SharingAssumption
  <2>6. place' = place
    BY <2>3 DEF FindsEnd, rows
  <2>7. req[r].coll \in Colls
    BY <2>2, PastOwn DEF CollStep, OwnedIn, At, Step
  <2>8. \A c \in Comics : place[req[r].coll][c] # None =>
          place[req[r].coll][c] <= p - 1 /\ place[req[r].coll][c] \in Nat
    <3>1. \A x \in Places(req[r].coll) : x <= p - 1
      BY <2>5 DEF IsLast
    <3>2. \A c \in Comics : place[req[r].coll][c] \in Nat \cup {None}
      BY <2>7 DEF IInv, Stored
    <3> QED BY <3>1, <3>2 DEF Places
  <2>9. \A x \in Nat : x <= p - 1 => x < p
    BY <2>5
  <2> QED BY <2>1, <2>5, <2>6, <2>8, <2>9
<1> QED BY <1>3, <1>4, <1>5, <1>6, Course

\* Places that are given up leave an order clear.
LEMMA ClearStays ==
  ASSUME NEW p, NEW n, Clear(p), \A c \in Comics : n[c] = p[c] \/ n[c] = None
  PROVE  Clear(n)
BY DEF Clear

\* As far as anybody's order goes.
Unspoilt == \A k \in Colls \ muddled' : k \notin muddled /\ \A c \in Comics :
  place'[k][c] = place[k][c] \/ place'[k][c] = None

LEMMA CascadeUnspoils ==
  ASSUME NEW gc, NEW gk, Cascade(gc, gk), muddled' = muddled
  PROVE  Unspoilt
BY DEF Cascade, Unspoilt

LEMMA InsertsClear ==
  ASSUME IInv, Appending, OrderIsClear, NEW r \in Requests, Inserts(r)
  PROVE  OrderIsClear'
<1> DEFINE q == req[r]
<1>1. At(r, "insert")
  BY DEF Inserts
<1>2. q.coll \in Colls
  BY <1>1, PastOwn DEF CollStep, OwnedIn, At, Step
<1>3. CASE Live(q.coll) /\ Here(q.comic) /\ place[q.coll][q.comic] = None
  <2>1. /\ place' = [place EXCEPT ![q.coll] = [place[q.coll] EXCEPT ![q.comic] = q.end]]
        /\ muddled' = IF r \in raced THEN muddled \cup {q.coll} ELSE muddled
    BY <1>3 DEF Inserts
  <2>2. \A k \in Colls \ {q.coll} : place'[k] = place[k]
    BY <2>1 DEF IInv, Stored
  <2>3. \A c \in Comics : place'[q.coll][c] = IF c = q.comic THEN q.end ELSE place[q.coll][c]
    BY <1>2, <2>1 DEF IInv, Stored
  <2>4. r \notin raced => \A c \in Comics : place[q.coll][c] # None => place[q.coll][c] < q.end
    BY <1>1 DEF Appending, Places
  <2>5. q.end \in Nat /\ \A c \in Comics : place[q.coll][c] \in Nat \cup {None}
    BY <1>2, UnderWay DEF Call, IInv, Stored
  <2>6. ASSUME r \notin raced, Clear(place[q.coll]) PROVE Clear(place'[q.coll])
    <3> SUFFICES ASSUME NEW c \in Comics, NEW d \in Comics, place'[q.coll][c] # None,
                        place'[q.coll][c] = place'[q.coll][d]
                 PROVE  c = d
      BY DEF Clear
    <3>1. CASE c # q.comic /\ d # q.comic
      BY <2>3, <2>6, <3>1 DEF Clear
    <3>2. CASE c = q.comic /\ d # q.comic
      <4>1. place[q.coll][d] = q.end /\ q.end # None
        BY <2>3, <3>2
      <4> QED BY <2>4, <2>5, <2>6, <4>1
    <3>3. CASE c # q.comic /\ d = q.comic
      <4>1. place[q.coll][c] = q.end /\ q.end # None
        BY <2>3, <3>3
      <4> QED BY <2>4, <2>5, <2>6, <4>1
    <3> QED BY <3>1, <3>2, <3>3
  <2> QED BY <2>1, <2>2, <2>6 DEF OrderIsClear, Clear
<1>4. CASE ~(Live(q.coll) /\ Here(q.comic) /\ place[q.coll][q.comic] = None)
  <2>1. place' = place /\ muddled' = muddled
    BY <1>4 DEF Inserts
  <2> QED BY <2>1 DEF OrderIsClear, Clear
<1> QED BY <1>3, <1>4

LEMMA ReordersClear ==
  ASSUME IInv, OrderIsClear, NEW r \in Requests, Reorders(r)
  PROVE  OrderIsClear'
<1> DEFINE q == req[r]  o == q.order
           all == \A c \in Comics : Member(q.coll, c) => c \in Listed(o)
           at(c) == CHOOSE i \in DOMAIN o : o[i] = c
           moved == [c \in Comics |-> IF Member(q.coll, c) /\ c \in Listed(o) THEN at(c) - 1
                                      ELSE place[q.coll][c]]
<1>1. At(r, "order") /\ place' = [place EXCEPT ![q.coll] = moved]
      /\ muddled' = IF all THEN muddled \ {q.coll} ELSE muddled \cup {q.coll}
  BY DEF Reorders
<1>2. q.coll \in Colls
  BY <1>1, PastOwn DEF CollStep, OwnedIn, At, Step
<1>3. place'[q.coll] = moved /\ \A k \in Colls \ {q.coll} : place'[k] = place[k]
  BY <1>1, <1>2 DEF IInv, Stored
<1>4. \A c \in Listed(o) : at(c) \in DOMAIN o /\ o[at(c)] = c
  BY DEF Listed
<1>5. \A i \in DOMAIN o : i \in Int
  <2>1. o \in Orders \cup {<<>>}
    BY UnderWay DEF Call
  <2>2. \A s \in Seq(Comics) : \A i \in DOMAIN s : i \in Int
    OBVIOUS
  <2>3. DOMAIN <<>> = {}
    OBVIOUS
  <2>4. Orders \subseteq Seq(Comics)
    BY SharingAssumption DEF SharingAssumption
  <2> HIDE DEF o
  <2> QED BY <2>1, <2>2, <2>3, <2>4
<1>6. ASSUME all PROVE Clear(moved)
  <2> SUFFICES ASSUME NEW c \in Comics, NEW d \in Comics, moved[c] # None, moved[c] = moved[d]
               PROVE  c = d
    BY DEF Clear
  <2>1. Member(q.coll, c) /\ Member(q.coll, d)
    BY DEF Member
  <2>2. c \in Listed(o) /\ d \in Listed(o)
    BY <1>6, <2>1
  <2>3. moved[c] = at(c) - 1 /\ moved[d] = at(d) - 1
    BY <2>1, <2>2
  <2> HIDE DEF moved, at
  <2>4. PICK i \in Int, j \in Int : i = at(c) /\ j = at(d)
    BY <1>4, <1>5, <2>2
  <2>5. i - 1 = j - 1
    BY <2>3, <2>4
  <2>6. at(c) = at(d)
    BY <2>4, <2>5
  <2> QED BY <1>4, <2>2, <2>6
<1> HIDE DEF moved, all
<1> QED BY <1>1, <1>3, <1>6 DEF OrderIsClear, Clear

\* Every other step leaves each comic its place or takes it away.
LEMMA OthersUnspoil ==
  ASSUME IInv, Next, \A r \in Requests : ~Inserts(r) /\ ~Reorders(r)
  PROVE  Unspoilt
<1>1. ASSUME place' = place, muddled' = muddled PROVE Unspoilt
  BY <1>1 DEF Unspoilt
<1>2. ASSUME NEW r \in Requests, Checking(r) PROVE Unspoilt
  BY <1>1, <1>2, CheckingStays, CheckingKeeps DEF rows
<1>3. ASSUME NEW r \in Requests, ComicWrite(r) PROVE Unspoilt
  <2>1. Drops(r) => Unspoilt
    BY <1>1, CascadeUnspoils DEF Drops, rows
  <2>2. Claims(r) \/ Unclaims(r) \/ Hides(r) \/ Renames(r) => place' = place /\ muddled' = muddled
    BY DEF Claims, Unclaims, Hides, Renames, OnRow
  <2>3. Tag(r) \/ Links(r) \/ Unlinks(r) \/ PutsFile(r) \/ Files(r) => place' = place /\ muddled' = muddled
    BY DEF Tag, Links, Unlinks, PutsFile, Files, rows
  <2> QED BY <1>1, <1>3, <2>1, <2>2, <2>3 DEF ComicWrite
<1>4. ASSUME NEW r \in Requests, CollWrite(r) PROVE Unspoilt
  <2>1. Discards(r) => Unspoilt
    BY <1>1, CascadeUnspoils DEF Discards, rows
  <2>2. Creates(r) \/ Shares(r) \/ Covers(r) => place' = place /\ muddled' = muddled
    BY DEF Creates, Shares, Covers
  <2>3. ASSUME Removes(r) PROVE Unspoilt
    <3>1. /\ muddled' = muddled
          /\ place' = [place EXCEPT ![req[r].coll] = [place[req[r].coll] EXCEPT ![req[r].comic] = None]]
      BY <2>3 DEF Removes
    <3>2. \A k \in Colls, c \in Comics : place'[k][c] = place[k][c] \/ place'[k][c] = None
      BY <3>1 DEF IInv, Stored
    <3> QED BY <3>1, <3>2 DEF Unspoilt
  <2> QED BY <1>1, <1>4, <2>1, <2>2, <2>3 DEF CollWrite
<1>5. ASSUME Elsewhere PROVE Unspoilt
  <2>1. \A l : Expires(l) => place' = place /\ muddled' = muddled
    BY DEF Expires
  <2>2. \A c : Converts(c) => place' = place /\ muddled' = muddled
    BY DEF Converts
  <2>3. \A u : AccountGoes(u) => Unspoilt
    BY CascadeUnspoils DEF AccountGoes
  <2>4. Restarts => place' = place /\ muddled' = muddled
    BY DEF Restarts, rows
  <2> QED BY <1>1, <1>5, <2>1, <2>2, <2>3, <2>4 DEF Elsewhere
<1>6. ASSUME NEW r \in Requests, NEW q \in Asks, Begins(r, q) PROVE Unspoilt
  BY <1>1, <1>6 DEF Begins, rows
<1> QED BY <1>2, <1>3, <1>4, <1>5, <1>6 DEF Next

\* AddToCollection (accessors.go) appends: whatever calls run between its read
\* of the last place and its INSERT, no two comics of a collection share one,
\* unless the INSERT was overtaken or a reorder left members out.
THEOREM OrderStaysClear == Spec => []OrderIsClear
<1>1. Init => Appending /\ OrderIsClear
  <2> SUFFICES ASSUME Init PROVE Appending /\ OrderIsClear
    OBVIOUS
  <2>1. \A r \in Requests : ~At(r, "insert")
    BY DEF Init, At, Idle
  <2> QED BY <2>1 DEF Init, Appending, OrderIsClear
<1>2. IInv /\ Appending /\ OrderIsClear /\ [Next]_vars => OrderIsClear'
  <2> SUFFICES ASSUME IInv, Appending, OrderIsClear, Next PROVE OrderIsClear'
    BY DEF OrderIsClear, Clear, vars, rows
  <2>1. CASE \E r \in Requests : Inserts(r)
    BY <2>1, InsertsClear
  <2>2. CASE \E r \in Requests : Reorders(r)
    BY <2>2, ReordersClear
  <2>3. CASE Unspoilt
    <3>1. \A k \in Colls \ muddled' : Clear(place[k])
      BY <2>3 DEF Unspoilt, OrderIsClear
    <3>2. \A k \in Colls \ muddled' : Clear(place'[k])
      BY <2>3, <3>1, ClearStays DEF Unspoilt
    <3> QED BY <3>2 DEF OrderIsClear, Clear
  <2> QED BY <2>1, <2>2, <2>3, OthersUnspoil
<1> QED BY <1>1, <1>2, AppendingKept, Always, PTL DEF Spec

=============================================================================
