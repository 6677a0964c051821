------------------------------- MODULE Sharing -------------------------------
(***************************************************************************)
(* Who sees which comic, and who may change it: owners, claims, hiding and *)
(* shared collections (internal/store/accessors.go), as the HTTP handlers  *)
(* (comic_handlers.go and collection_handlers.go of internal/server) and   *)
(* the tools of internal/mcp/tools.go use them.                            *)
(*                                                                         *)
(* A step is one SQL statement or one transaction, for the store has one   *)
(* connection.  A call is a script of such steps: each of its checks ends  *)
(* it or lets it go on, and other calls run in between.  The caller is who *)
(* the middleware found when the call began.  An id is used once.          *)
(***************************************************************************)
EXTENDS Integers, Sequences, FiniteSets

CONSTANTS
  Users,
  Admins,      (* the accounts with is_admin                               *)
  Comics,      (* ids of comics                                            *)
  Colls,       (* ids of collections and reading lists                     *)
  Tags,
  Requests,    (* bound: calls under way at once                           *)
  Asks,        (* the calls that may be made, a subset of Calls            *)
  Orders,      (* the lists a reorder may name                             *)
  Shelf, Kept, Held,  (* comics, collections and places at the start       *)
  MaxCalls,    (* bound: calls in all                                      *)
  MaxPlace,    (* bound: a comic's place in a collection                   *)
  None,        (* no owner, no cover, no comic named, not in use yet       *)
  Gone         (* an id whose row has been deleted                         *)

ServerWide == {"library", "converted"}
Row == [source : ServerWide \cup {"claimed", "upload"}, owner : Users \cup {None},
        hidden : BOOLEAN, title : Users \cup {None}]
Coll == [owner : Users, shared : BOOLEAN, cover : Comics \cup {None}]

ASSUME SharingAssumption ==
  /\ Admins \subseteq Users /\ MaxPlace \in Nat
  /\ Orders \subseteq Seq(Comics)
  /\ MaxCalls \in Nat
  /\ {None, Gone} \cap (Users \cup Comics \cup Colls \cup Row \cup Coll) = {}
  /\ None # Gone

\* The tables at the start are those of a database in order.
ASSUME StartAssumption ==
  /\ Shelf \in [Comics -> Row \cup {None}] /\ Kept \in [Colls -> Coll \cup {None}]
  /\ Held \in [Colls -> [Comics -> Nat \cup {None}]]
  /\ \A c \in Comics :
       Shelf[c] # None =>
         /\ (Shelf[c].owner = None) = (Shelf[c].source \in ServerWide)
         /\ Shelf[c].source = "claimed" => Shelf[c].owner \in Admins
  /\ \A k \in Colls :
       Kept[k] # None => Kept[k].cover = None \/ Shelf[Kept[k].cover] # None
  /\ \A k \in Colls, c \in Comics : Held[k][c] # None => Kept[k] # None /\ Shelf[c] # None

VARIABLES
  users,    (* the accounts                                                *)
  comics,   (* the comics table; title is who last set title_override      *)
  colls,    (* the collections table                                       *)
  place,    (* collection_comics: a comic's position, None outside         *)
  tags,     (* comic_tags: each account's tags on each comic               *)
  links,    (* comic_download_tokens: account and comic                    *)
  files,    (* comics whose file is in the data directory                  *)
  req,      (* the calls under way                                         *)
  calls,    (* how many calls have begun                                   *)
  raced,    (* history: calls whose checks or reads have been overtaken    *)
  muddled   (* history: collections whose order is not clear, or may not be *)

rows == <<users, comics, colls, place, tags, links>>
vars == <<rows, files, req, calls, raced, muddled>>

-----------------------------------------------------------------------------
(* The rules of the store.                                                 *)

Here(c) == c \in Comics /\ comics[c] \notin {None, Gone}
Live(k) == k \in Colls /\ colls[k] \notin {None, Gone}

\* A shared collection of the comic's own owner holds the comic.
SharedByAnyone(c) ==  \* Mutant: anybody's shared collection.
  \E k \in Colls : Live(k) /\ colls[k].shared /\ place[k][c] # None
SharedByOwner(c) ==
  \E k \in Colls : /\ Live(k) /\ colls[k].shared /\ place[k][c] # None
                   /\ colls[k].owner = comics[c].owner

\* visibleComicsWithHidden and visibleComics.
SeesHidden(u, c) ==
  /\ Here(c)
  /\ comics[c].source \in ServerWide \/ comics[c].owner = u \/ SharedByOwner(c)
Sees(u, c) == SeesHidden(u, c) /\ ~comics[c].hidden

\* OwnedCollection.
Reads(u, k) ==  \* Mutant: a collection one can read.
  Live(k) /\ (colls[k].owner = u \/ colls[k].shared)
Owns(u, k) == Live(k) /\ colls[k].owner = u

\* CanDeleteComic; a library or claimed comic is nobody's to delete.
MayDelete(u, row) ==
  \/ row.source = "upload" /\ (row.owner = u \/ u \in Admins)
  \/ row.source = "converted" /\ u \in Admins
MayRename(u, row) == row.owner = u \/ u \in Admins

\* What goes with comics and collections that are deleted: ON DELETE CASCADE,
\* and ON DELETE SET NULL for a cover.
LinksKept(gc) == links  \* Mutant: download tokens stay.
LinksLeft(gc) == {l \in links : l[1] \in users' /\ l[2] \notin gc}
Uncovered(k, gc) ==
  IF Live(k) /\ colls[k].cover \in gc THEN [colls[k] EXCEPT !.cover = None] ELSE colls[k]
Cascade(gc, gk) ==
  /\ comics' = [c \in Comics |-> IF c \in gc THEN Gone ELSE comics[c]]
  /\ colls' = [k \in Colls |-> IF k \in gk THEN Gone ELSE Uncovered(k, gc)]
  /\ place' = [k \in Colls |-> [c \in Comics |->
       IF k \in gk \/ c \in gc THEN None ELSE place[k][c]]]
  /\ tags' = [u \in Users |-> [c \in Comics |->
       IF c \in gc \/ u \notin users' THEN {} ELSE tags[u][c]]]
  /\ links' = LinksLeft(gc)

-----------------------------------------------------------------------------
(* Calls.                                                                  *)

\* What a call does, statement by statement: the handlers of the HTTP
\* interface and, under the names they have in Go, the tools of an agent.
handleGetComic == <<"see", "row", "open">>
handleComicPage == <<"see", "row", "open">>
handleComicCover == <<"see", "row", "open">>
handleComicDownload == <<"redeem", "see", "row", "open">>
readComicPages == <<"see", "row", "open">>
createDownloadLink == <<"see", "link">>
handleRenameComic == <<"see", "mayRename", "rename">>
renameComic == <<"see", "mayRename", "rename">>
handleDeleteComic == <<"see", "mayDelete", "drop", "unlink">>
deleteComic == <<"see", "mayDelete", "drop", "unlink">>
handleClaimComic == <<"see", "claim">>
claimComic == <<"claim">>
handleUnclaimComic == <<"see", "unclaim">>
setHidden(hide) == IF hide THEN <<"see", "hide">> ELSE <<"seeHidden", "unhide">>
setComicHidden(hide) == IF hide THEN <<"see", "hide">> ELSE <<"seeHidden", "unhide">>
handleSetTags == <<"see", "tag">>
tagComics == <<"seeTags", "see", "tag">>
Adopt == <<"file", "upsert">>
handleUploadComic ==  \* As Adopt, then fileComic's AddToCollection.
  <<"file", "upsert", "own", "see", "end", "insert">>

handleCreateCollection == <<"create">>
createCollection == <<"create">>
handleUpdateCollection == <<"own", "share">>
EditsBlindly == <<"own", "share", "own", "see", "cover">>  \* Mutant: nothing is checked first.
updateCollection == <<"own", "see", "own", "share", "own", "see", "cover">>
handleSetCollectionCover == <<"own", "see", "cover">>
handleDeleteCollection == <<"own", "discard">>
deleteCollection == <<"own", "discard">>
handleAddToCollection == <<"own", "see", "end", "insert">>
handleRemoveFromCollection == <<"own", "remove">>
editCollectionComics == <<"own", "own", "remove", "own", "see", "end", "insert">>
handleReorderCollection == <<"own", "order">>
reorderCollection == <<"own", "order">>

Idle == [op |-> <<"idle">>, at |-> 1, user |-> None, comic |-> None, coll |-> None,
         flag |-> FALSE, add |-> {}, cut |-> {}, order |-> <<>>, end |-> 0]

\* Those on a comic, by anybody and by admins only (requireAdmin, and the
\* tools' own gate); those on a collection; those on a comic and a collection.
OnComic ==
  {handleGetComic, handleComicPage, handleComicCover, handleComicDownload, readComicPages,
   createDownloadLink, handleRenameComic, renameComic, handleDeleteComic, deleteComic}
OfAdmins ==
  {handleClaimComic, claimComic, handleUnclaimComic}
  \cup {setHidden(b) : b \in BOOLEAN} \cup {setComicHidden(b) : b \in BOOLEAN}
OnColl == {handleDeleteCollection, deleteCollection}
Flagged == {handleCreateCollection, createCollection, handleUpdateCollection}
Reordering == {handleReorderCollection, reorderCollection}
OnBoth ==
  {handleSetCollectionCover, handleAddToCollection, handleRemoveFromCollection, editCollectionComics}
Scripts ==
  OnComic \cup OfAdmins \cup {handleSetTags, tagComics} \cup OnColl \cup Flagged \cup Reordering
  \cup OnBoth \cup {updateCollection, handleUploadComic, Adopt, Idle.op}

Of(op, u, c, k) == [Idle EXCEPT !.op = op, !.user = u, !.comic = c, !.coll = k]
CallsOn(ops, us, cs, ks) == {Of(op, u, c, k) : op \in ops, u \in us, c \in cs, k \in ks}
Retagging(q, a, x) == [q EXCEPT !.add = a, !.cut = x]
Calls ==
  CallsOn(OnComic \cup {Adopt}, Users, Comics, {None})
  \cup CallsOn(OfAdmins, Admins, Comics, {None})
  \cup {[q EXCEPT !.add = a] :
          q \in CallsOn({handleSetTags}, Users, Comics, {None}), a \in SUBSET Tags}
  \cup {Retagging(q, a, x) :
          q \in CallsOn({tagComics}, Users, Comics, {None}), a \in SUBSET Tags, x \in SUBSET Tags}
  \cup CallsOn(OnBoth \cup {handleUploadComic}, Users, Comics, Colls)
  \cup CallsOn(OnColl, Users, {None}, Colls)
  \cup {[q EXCEPT !.flag = b] :
          q \in CallsOn(Flagged, Users, {None}, Colls)
                \cup CallsOn({updateCollection}, Users, Comics, Colls), b \in BOOLEAN}
  \cup {[q EXCEPT !.order = o] : q \in CallsOn(Reordering, Users, {None}, Colls), o \in Orders}
ASSUME AsksAssumption == Asks \subseteq Calls

At(r, step) == req[r].op[req[r].at] = step
Advanced(r) ==
  IF req[r].at = Len(req[r].op) THEN Idle ELSE [req[r] EXCEPT !.at = @ + 1]
Passes(r) == req' = [req EXCEPT ![r] = Advanced(r)]
Ends(r) == req' = [req EXCEPT ![r] = Idle]
Checks(r, ok) == IF ok THEN Passes(r) ELSE Ends(r)

Begins(r, q) ==
  /\ req[r] = Idle /\ q.user \in users /\ calls < MaxCalls
  /\ calls' = calls + 1
  /\ req' = [req EXCEPT ![r] = q]
  /\ UNCHANGED <<rows, files, muddled>>

-----------------------------------------------------------------------------
(* Checks, and reads a call uses later.                                    *)

Query(r, step, ok) ==
  At(r, step) /\ Checks(r, ok) /\ UNCHANGED <<rows, files, muddled>>
GetComic(r) == Query(r, "see", Sees(req[r].user, req[r].comic))
GetComicWithHidden(r) == Query(r, "seeHidden", SeesHidden(req[r].user, req[r].comic))
OwnedCollection(r) == Query(r, "own", Owns(req[r].user, req[r].coll))
DownloadToken(r) == Query(r, "redeem", <<req[r].user, req[r].comic>> \in links)
ComicRowByID(r) ==
  LET q == req[r] IN
    \/ Query(r, "row", Here(q.comic))
    \/ Query(r, "mayRename", Here(q.comic) /\ MayRename(q.user, comics[q.comic]))
    \/ Query(r, "mayDelete", Here(q.comic) /\ MayDelete(q.user, comics[q.comic]))

\* mergeTags, of what the account has on the comic.
Written(has, add, cut) == add  \* Mutant: the names asked for, outright.
Merged(has, add, cut) == (has \cup add) \ cut
SeesTags(r) ==
  /\ At(r, "seeTags")
  /\ LET q == req[r] IN
       IF Sees(q.user, q.comic)
       THEN req' = [req EXCEPT ![r] =
              [q EXCEPT !.at = 2, !.add = Merged(tags[q.user][q.comic], q.add, q.cut)]]
       ELSE Ends(r)
  /\ UNCHANGED <<rows, files, muddled>>

\* COALESCE(MAX(position), -1) + 1, within the bound.
Places(k) == {place[k][c] : c \in Comics} \ {None}
IsLast(k, p) ==
  IF Places(k) = {} THEN p = -1 ELSE p \in Places(k) /\ \A q \in Places(k) : q <= p
CountOf(k) == {Cardinality(Places(k))}  \* Mutant: as many as there are.
LastOf(k) == {p \in -1..MaxPlace : IsLast(k, p)}  \* Mutant: MAX itself.
EndOf(k) == {p \in 0..MaxPlace : IsLast(k, p - 1)}
FindsEnd(r) ==
  /\ At(r, "end")
  /\ \E p \in EndOf(req[r].coll) : req' = [req EXCEPT ![r] = [req[r] EXCEPT !.at = @ + 1, !.end = p]]
  /\ UNCHANGED <<rows, files, muddled>>

\* The file is opened, or found gone; nothing is written.
Opens(r) ==
  /\ At(r, "open") /\ Ends(r)
  /\ UNCHANGED <<rows, files, muddled>>

-----------------------------------------------------------------------------
(* Writes.  An UPDATE finds the row as it has become, or none.             *)

OnRow(r, ok, row) ==
  /\ IF Here(req[r].comic) /\ ok
     THEN comics' = [comics EXCEPT ![req[r].comic] = row] /\ Passes(r)
     ELSE Ends(r) /\ UNCHANGED comics
  /\ UNCHANGED <<users, colls, place, tags, links, files, muddled>>

\* ClaimComic WHERE source='library'; the foreign key wants the account.
Claims(r) ==
  /\ At(r, "claim")
  /\ LET q == req[r]  row == comics[q.comic] IN
       OnRow(r, row.source = "library" /\ q.user \in users,
             [row EXCEPT !.owner = q.user, !.source = "claimed"])

\* UnclaimComic: its callers are admins.
Unclaims(r) ==
  /\ At(r, "unclaim")
  /\ LET row == comics[req[r].comic] IN
       OnRow(r, row.source = "claimed", [row EXCEPT !.owner = None, !.source = "library"])

\* SetComicHidden.
Hides(r) ==
  /\ At(r, "hide") \/ At(r, "unhide")
  /\ OnRow(r, TRUE, [comics[req[r].comic] EXCEPT !.hidden = At(r, "hide")])

\* RenameComic.
Renames(r) ==
  /\ At(r, "rename")
  /\ OnRow(r, TRUE, [comics[req[r].comic] EXCEPT !.title = req[r].user])

\* SetComicTags' transaction: only this account's tags are replaced.  No
\* foreign key is touched when there is nothing to insert.
Tagged(u, c, set) == [tags EXCEPT ![u][c] = set]
Tag(r) ==
  /\ At(r, "tag")
  /\ LET q == req[r] IN
       IF q.add = {} \/ (Here(q.comic) /\ q.user \in users)
       THEN tags' = Tagged(q.user, q.comic, q.add) /\ Passes(r)
       ELSE Ends(r) /\ UNCHANGED tags
  /\ UNCHANGED <<users, comics, colls, place, links, files, muddled>>

\* CreateDownloadToken, and a token's hour.
Links(r) ==
  /\ At(r, "link")
  /\ LET q == req[r] IN
       IF Here(q.comic) /\ q.user \in users
       THEN links' = links \cup {<<q.user, q.comic>>} /\ Passes(r)
       ELSE Ends(r) /\ UNCHANGED links
  /\ UNCHANGED <<users, comics, colls, place, tags, files, muddled>>
Expires(l) ==
  /\ l \in links /\ links' = links \ {l}
  /\ UNCHANGED <<users, comics, colls, place, tags, files, req, muddled>>

\* DeleteComic, and then its file.
Drops(r) ==
  /\ At(r, "drop")
  /\ UNCHANGED users
  /\ IF Here(req[r].comic) THEN Cascade({req[r].comic}, {}) /\ Passes(r)
     ELSE Ends(r) /\ UNCHANGED rows
  /\ UNCHANGED <<files, muddled>>
Unlinks(r) ==
  /\ At(r, "unlink")
  /\ files' = files \ {req[r].comic} /\ Passes(r)
  /\ UNCHANGED <<rows, muddled>>

-----------------------------------------------------------------------------
(* Collections.                                                            *)

\* CreateCollection.
Creates(r) ==
  /\ At(r, "create")
  /\ LET q == req[r] IN
       IF colls[q.coll] = None /\ q.user \in users
       THEN /\ colls' = [colls EXCEPT ![q.coll] =
                 [owner |-> q.user, shared |-> q.flag, cover |-> None]]
            /\ Passes(r)
       ELSE Ends(r) /\ UNCHANGED colls
  /\ UNCHANGED <<users, comics, place, tags, links, files, muddled>>

\* UpdateCollection's and SetCollectionCover's UPDATE, by id.  A foreign key
\* refuses a cover that is gone.
Shares(r) ==
  /\ At(r, "share") /\ Passes(r)
  /\ colls' = IF Live(req[r].coll)
              THEN [colls EXCEPT ![req[r].coll] = [@ EXCEPT !.shared = req[r].flag]]
              ELSE colls
  /\ UNCHANGED <<users, comics, place, tags, links, files, muddled>>
Covers(r) ==
  /\ At(r, "cover") /\ Passes(r)
  /\ colls' = IF Live(req[r].coll) /\ Here(req[r].comic)
              THEN [colls EXCEPT ![req[r].coll] = [@ EXCEPT !.cover = req[r].comic]]
              ELSE colls
  /\ UNCHANGED <<users, comics, place, tags, links, files, muddled>>

\* DeleteCollection's DELETE.
Discards(r) ==
  /\ At(r, "discard") /\ Passes(r)
  /\ UNCHANGED users
  /\ IF Live(req[r].coll) THEN Cascade({}, {req[r].coll}) ELSE UNCHANGED rows
  /\ UNCHANGED <<files, muddled>>

\* AddToCollection's INSERT ... ON CONFLICT DO NOTHING.
Inserts(r) ==
  /\ At(r, "insert") /\ Passes(r)
  /\ LET q == req[r] IN
       IF Live(q.coll) /\ Here(q.comic) /\ place[q.coll][q.comic] = None
       THEN /\ place' = [place EXCEPT ![q.coll] = [@ EXCEPT ![q.comic] = q.end]]
            /\ muddled' = IF r \in raced THEN muddled \cup {q.coll} ELSE muddled
       ELSE UNCHANGED <<place, muddled>>
  /\ UNCHANGED <<users, comics, colls, tags, links, files>>

\* RemoveFromCollection's DELETE.
Removes(r) ==
  /\ At(r, "remove") /\ Passes(r)
  /\ place' = [place EXCEPT ![req[r].coll] = [@ EXCEPT ![req[r].comic] = None]]
  /\ UNCHANGED <<users, comics, colls, tags, links, files, muddled>>

\* ReorderCollection's transaction: the comics listed get the places 0, 1,
\* 2...; the others keep theirs, so a list that is not the whole membership
\* may leave two in one place.
Listed(o) == {o[i] : i \in DOMAIN o}
Member(k, c) == place[k][c] # None
Reorders(r) ==
  /\ At(r, "order") /\ Passes(r)
  /\ LET q == req[r]  o == q.order IN
       /\ place' = [place EXCEPT ![q.coll] = [c \in Comics |->
            IF Member(q.coll, c) /\ c \in Listed(o)
            THEN (CHOOSE i \in DOMAIN o : o[i] = c) - 1 ELSE place[q.coll][c]]]
       /\ muddled' = IF \A c \in Comics : Member(q.coll, c) => c \in Listed(o)
                     THEN muddled \ {q.coll} ELSE muddled \cup {q.coll}
  /\ UNCHANGED <<users, comics, colls, tags, links, files>>

-----------------------------------------------------------------------------
(* Comics that come, accounts that go.                                     *)

\* Adopt: the file is moved into place, then the row is written under a new
\* id.  A row that is refused takes the file with it; a collection that
\* refuses the comic does not.
PutsFile(r) ==
  /\ At(r, "file")
  /\ IF comics[req[r].comic] = None /\ req[r].comic \notin files
     THEN files' = files \cup {req[r].comic} /\ Passes(r)
     ELSE Ends(r) /\ UNCHANGED files
  /\ UNCHANGED <<rows, muddled>>
Files(r) ==
  /\ At(r, "upsert")
  /\ LET q == req[r] IN
       IF q.user \in users
       THEN /\ comics' = [comics EXCEPT ![q.comic] =
                 [source |-> "upload", owner |-> q.user, hidden |-> FALSE, title |-> None]]
            /\ Passes(r) /\ UNCHANGED files
       ELSE files' = files \ {q.comic} /\ Ends(r) /\ UNCHANGED comics
  /\ UNCHANGED <<users, colls, place, tags, links, muddled>>

\* The importer files a converted comic.
Converts(c) ==
  /\ comics[c] = None /\ c \notin files
  /\ comics' = [comics EXCEPT ![c] =
       [source |-> "converted", owner |-> None, hidden |-> FALSE, title |-> None]]
  /\ files' = files \cup {c}
  /\ UNCHANGED <<users, colls, place, tags, links, req, muddled>>

\* DeleteUser: uploads and claims go with the account.
OwnedBy(u) == {c \in Comics : Here(c) /\ comics[c].owner = u}
AccountGoes(u) ==
  /\ u \in users
  /\ users' = users \ {u}
  /\ Cascade(OwnedBy(u), {k \in Colls : Owns(u, k)})
  /\ UNCHANGED <<files, req, muddled>>

\* The process dies and starts again.
Restarts ==
  /\ req' = [r \in Requests |-> Idle]
  /\ UNCHANGED <<rows, files, muddled>>

-----------------------------------------------------------------------------

\* A call whose reads or checks a step of another has overtaken: the places
\* an INSERT's end was read from, the tags a retag read, what an edit checked.
Reaches(q) == Sees(q.user, q.comic) /\ Owns(q.user, q.coll)
Overtaken(r) ==
  LET q == req[r] IN
    \/ At(r, "insert") /\ place'[q.coll] # place[q.coll]
    \/ q.op = tagComics /\ q.at > 1 /\ tags'[q.user][q.comic] # tags[q.user][q.comic]
    \/ q.op = updateCollection /\ Reaches(q) /\ ~Reaches(q)'
Observes == raced' = {r \in Requests : req'[r] # Idle /\ (r \in raced \/ Overtaken(r))}

\* No two comics in one place.
Clear(places) ==
  \A c, d \in Comics : places[c] # None /\ places[c] = places[d] => c = d

Init ==
  /\ users = Users
  /\ comics = Shelf /\ colls = Kept /\ place = Held
  /\ tags = [u \in Users |-> [c \in Comics |-> {}]]
  /\ links = {} /\ files = {c \in Comics : Shelf[c] # None /\ Shelf[c].source \in {"upload", "converted"}}
  /\ req = [r \in Requests |-> Idle]
  /\ calls = 0 /\ raced = {} /\ muddled = {k \in Colls : ~Clear(Held[k])}

Checking(r) ==
  \/ GetComic(r) \/ GetComicWithHidden(r) \/ OwnedCollection(r) \/ DownloadToken(r)
  \/ ComicRowByID(r) \/ SeesTags(r) \/ FindsEnd(r) \/ Opens(r)
ComicWrite(r) ==
  Claims(r) \/ Unclaims(r) \/ Hides(r) \/ Renames(r) \/ Tag(r) \/ Links(r) \/ Drops(r)
  \/ Unlinks(r) \/ PutsFile(r) \/ Files(r)
CollWrite(r) ==
  Creates(r) \/ Shares(r) \/ Covers(r) \/ Discards(r) \/ Inserts(r) \/ Removes(r) \/ Reorders(r)
Elsewhere ==
  \/ \E l \in links : Expires(l)
  \/ \E c \in Comics : Converts(c)
  \/ \E u \in Users : AccountGoes(u)
  \/ Restarts

Next ==
  /\ \/ \E r \in Requests, q \in Asks : Begins(r, q)
     \/ /\ \/ \E r \in Requests : Checking(r) \/ ComicWrite(r) \/ CollWrite(r)
           \/ Elsewhere
        /\ UNCHANGED calls
  /\ Observes

Spec == Init /\ [][Next]_vars

-----------------------------------------------------------------------------

Call == [op : Scripts, at : Nat \ {0}, user : Users \cup {None}, comic : Comics \cup {None},
         coll : Colls \cup {None}, flag : BOOLEAN, add : SUBSET Tags, cut : SUBSET Tags,
         order : Orders \cup {<<>>}, end : Nat]

TypeOK ==
  /\ users \subseteq Users
  /\ comics \in [Comics -> Row \cup {None, Gone}]
  /\ colls \in [Colls -> Coll \cup {None, Gone}]
  /\ place \in [Colls -> [Comics -> Nat \cup {None}]]
  /\ tags \in [Users -> [Comics -> SUBSET Tags]]
  /\ links \subseteq Users \X Comics
  /\ files \subseteq Comics
  /\ req \in [Requests -> Call]
  /\ \A r \in Requests : req[r].at <= Len(req[r].op)
  /\ calls \in 0..MaxCalls /\ raced \subseteq Requests /\ muddled \subseteq Colls

\* Nothing points at what is gone, whatever was under way when it went: a
\* comic's owner and, for one in the data directory, its file ("a row whose
\* file is gone is a comic that opens to an error", comic_handlers.go:652); a
\* collection's owner, cover and members; a tag and a download token.
NothingDangles ==
  /\ \A c \in Comics : Here(c) =>
       /\ comics[c].owner \in users \cup {None}
       /\ (comics[c].owner = None) = (comics[c].source \in ServerWide)
       /\ comics[c].source \in {"upload", "converted"} => c \in files
  /\ \A k \in Colls : Live(k) =>
       colls[k].owner \in users /\ (colls[k].cover # None => Here(colls[k].cover))
  /\ \A k \in Colls, c \in Comics : place[k][c] # None => Live(k) /\ Here(c)
  /\ \A u \in Users, c \in Comics : tags[u][c] # {} => u \in users /\ Here(c)
  /\ \A l \in links : l[1] \in users /\ Here(l[2])

\* AddToCollection appends: no two comics of a collection share a place,
\* unless an insert was overtaken between its two statements, or a reorder
\* did not list every member (the page that made the list was stale).
OrderIsClear == \A k \in Colls \ muddled : Clear(place[k])

Acts(r) == req'[r] # req[r]
ActsFor(owner) == \E r \in Requests : Acts(r) /\ req[r].user = owner
AdminActs == \E r \in Requests : Acts(r) /\ req[r].user \in Admins
AdminReleases ==
  \E r \in Requests : Acts(r) /\ req[r].user \in Admins /\ (At(r, "unclaim") \/ At(r, "unhide"))

\* A comic somebody could not see comes into sight only by its owner's act, or
\* by an admin who unclaims or unhides it: "only the uploader may opt their
\* upload in", and an exposure never is "irrevocable by anyone but the
\* launderer" (accessors.go:694-698).
ComesIntoSight ==
  \A c \in Comics, u \in Users :
    Here(c) /\ ~Sees(u, c) /\ Sees(u, c)' => ActsFor(comics[c].owner) \/ AdminReleases
OnlyOwnersExpose == [][ComesIntoSight]_vars

\* What is an account's is changed by its own calls: a comic's row by its
\* owner's or an admin's, a collection by its owner's ("shared makes a
\* collection readable, never writable", accessors.go:1399-1400), tags by whose
\* they are.  Otherwise something that was deleted has taken it along.
Changes ==
  /\ \A c \in Comics : Here(c) /\ comics'[c] # comics[c] =>
       ActsFor(comics[c].owner) \/ AdminActs \/ comics[c].owner \in Users \ users'
  /\ \A k \in Colls : Live(k) /\ colls'[k] # colls[k] =>
       \/ ActsFor(colls[k].owner) \/ colls[k].owner \notin users'
       \/ colls'[k] # Gone /\ \E c \in Comics : colls[k].cover = c /\ ~Here(c)'
  /\ \A k \in Colls, c \in Comics : Live(k) /\ place'[k][c] # place[k][c] =>
       ActsFor(colls[k].owner) \/ ~Live(k)' \/ ~Here(c)'
  /\ \A u \in users, c \in Comics : tags'[u][c] # tags[u][c] =>
       ActsFor(u) \/ u \notin users' \/ ~Here(c)'
OnlyOwnersChange == [][Changes]_vars

\* A retag carries over what it was not asked to drop ("Tags not in either
\* list are left alone", mcp.go:155), unless the tags changed after it read them.
Retags(r) ==
  LET q == req[r] IN
    (At(r, "tag") /\ q.op = tagComics /\ Acts(r) /\ r \notin raced) =>
       tags[q.user][q.comic] \ tags'[q.user][q.comic] \subseteq q.cut
RetagsKeep == [][\A r \in Requests : Retags(r)]_vars

\* An edit of a collection lands whole or not at all: nothing of it has been
\* written when it is refused ("leaving the caller with a half-applied edit it
\* never asked for", mcp/tools.go:300-303), unless what it had checked changed.
Shared(q) == \E i \in 1..(q.at - 1) : q.op[i] = "share"
Refused(r) ==
  LET q == req[r] IN
    \/ At(r, "own") /\ ~Owns(q.user, q.coll)
    \/ At(r, "see") /\ ~Sees(q.user, q.comic)
    \/ At(r, "cover") /\ ~(Live(q.coll) /\ Here(q.comic))
EditsLandWhole ==
  \A r \in Requests : req[r].op = updateCollection /\ Shared(req[r]) /\ Refused(r) => r \in raced

=============================================================================
