----------------------------- MODULE ProductEditor -----------------------------
(***************************************************************************)
(* The pages of the sellers' portal about one product: publishing or       *)
(* editing it, with its images, which are uploaded one at a time, removed, *)
(* and reordered by dragging; and adding stock to it.                      *)
(*                                                                         *)
(* The two indices a drag leaves behind are refs, not state: they survive  *)
(* from one drag to the next.  An image is the number of its upload.       *)
(***************************************************************************)
EXTENDS Integers, SequencesExt

CONSTANTS
    StoredImages,    \* images of the product that is edited: 1..StoredImages
    MaxImages        \* bound on the images ever uploaded, those included

ASSUME EditorAssumption == StoredImages \in Nat /\ MaxImages \in Nat /\ StoredImages <= MaxImages

VARIABLES
    portalPage,      \* page
    images,          \* images, of the mounted editor
    uploading,       \* an upload is under way
    uploads,         \* the images uploaded so far
    drag,            \* dragItem, dragOverItem, and whether a drag is going on
    specsShared,     \* the editor's specs are the objects of the cached product
    specsCached,     \* what the cached product's specs hold
    save,            \* the mutation of the mounted editor
    stock,           \* the stock page: its input and its mutation
    kept             \* history: the images chosen and not removed

imageVars == <<images, uploading, uploads, drag, kept>>
specVars  == <<specsShared, specsCached>>
editorVars == <<portalPage, imageVars, specVars, save, stock>>

NoDrag  == [item |-> 0, over |-> 0, moving |-> FALSE]
NoStock == [typed |-> FALSE, pending |-> FALSE]

EditorTypeOK ==
    /\ portalPage \in {"dashboard", "publish", "edit", "manage-stock"}
    /\ images \in Seq(1..MaxImages)
    /\ uploading \in BOOLEAN /\ uploads \in Nat
    /\ drag \in [item : 0..MaxImages, over : 0..MaxImages, moving : BOOLEAN]
    /\ specsShared \in BOOLEAN /\ specsCached \in {"saved", "unsaved"}
    /\ save \in {"idle", "pending", "failed", "done"}
    /\ stock \in [typed : BOOLEAN, pending : BOOLEAN]
    /\ kept \subseteq 1..MaxImages

EditorInit ==
    /\ portalPage = "dashboard"
    /\ images = <<>> /\ uploading = FALSE /\ uploads = StoredImages
    /\ drag = NoDrag
    /\ specsShared = FALSE /\ specsCached = "saved"
    /\ save = "idle" /\ stock = NoStock /\ kept = {}

---------------------------------------------------------------------------
(* The routing of the portal. *)

\* A page is mounted with the product's images, or with none.
Mount(page, own) ==
    /\ portalPage' = page
    /\ images' = [i \in 1..own |-> i] /\ kept' = 1..own
    /\ uploading' = FALSE /\ drag' = NoDrag
    /\ save' = "idle" /\ stock' = NoStock
    /\ UNCHANGED <<uploads, specsCached>>

OpenPublish ==
    /\ portalPage = "dashboard"
    /\ Mount("publish", 0) /\ specsShared' = FALSE

\* A product without specs is edited from a blank one.
OpenEdit ==
    /\ portalPage = "dashboard"
    /\ Mount("edit", StoredImages) /\ specsShared' \in BOOLEAN

OpenStock ==
    /\ portalPage = "dashboard"
    /\ Mount("manage-stock", 0) /\ specsShared' = FALSE

\* Back, whatever is under way; the answers find no page to change.
BackToDashboard ==
    /\ portalPage # "dashboard"
    /\ Mount("dashboard", 0) /\ specsShared' = FALSE

EditorShown == portalPage \in {"publish", "edit"} /\ save # "done"

---------------------------------------------------------------------------
(* The images. *)

UploadImage ==
    /\ EditorShown /\ ~uploading /\ uploads < MaxImages
    /\ uploading' = TRUE
    /\ UNCHANGED <<portalPage, images, uploads, drag, kept, specVars, save, stock>>

\* The image goes after those there are by now; a failure adds none.
ImageUploaded ==
    /\ EditorShown /\ uploading /\ uploading' = FALSE
    /\ uploads' = uploads + 1
    /\ \/ images' = Append(images, uploads + 1) /\ kept' = kept \cup {uploads + 1}
       \/ UNCHANGED <<images, kept>>
    /\ UNCHANGED <<portalPage, drag, specVars, save, stock>>

RemoveImage(i) ==
    /\ EditorShown /\ ~drag.moving /\ i \in DOMAIN images
    /\ images' = RemoveAt(images, i)
    /\ kept' = kept \ {images[i]}
    /\ UNCHANGED <<portalPage, uploading, uploads, drag, specVars, save, stock>>

DragStart(i) ==
    /\ EditorShown /\ ~drag.moving /\ i \in DOMAIN images
    /\ drag' = [drag EXCEPT !.item = i, !.moving = TRUE]
    /\ UNCHANGED <<portalPage, images, uploading, uploads, kept, specVars, save, stock>>

\* Also fired by a file dragged in from outside the page.
DragEnter(i) ==
    /\ EditorShown /\ i \in DOMAIN images
    /\ drag' = [drag EXCEPT !.over = i]
    /\ UNCHANGED <<portalPage, images, uploading, uploads, kept, specVars, save, stock>>

\* Mutant: the first splice is missing.
ReorderedTwice(s, from, to) == InsertAt(s, to, s[from])

\* The two splices: an index past the end inserts at the end.
Reordered(s, from, to) ==
    LET rest == RemoveAt(s, from)
        at   == IF to > Len(rest) THEN Len(rest) + 1 ELSE to
    IN InsertAt(rest, at, s[from])

DragEnd ==
    /\ EditorShown /\ drag.moving
    /\ IF drag.over = 0
         THEN drag' = [drag EXCEPT !.moving = FALSE] /\ UNCHANGED images
         ELSE drag' = NoDrag /\ images' = Reordered(images, drag.item, drag.over)
    /\ UNCHANGED <<portalPage, uploading, uploads, kept, specVars, save, stock>>

---------------------------------------------------------------------------
(* The specs, the submission and the stock page. *)

\* The row that is typed in is changed in place.
TypeSpec ==
    /\ EditorShown
    /\ specsCached' = IF specsShared THEN "unsaved" ELSE specsCached
    /\ UNCHANGED <<portalPage, imageVars, specsShared, save, stock>>

\* handleSubmit: the first image is the main one, so there has to be one.
SubmitProduct ==
    /\ EditorShown /\ ~drag.moving /\ save # "pending" /\ images # <<>>
    /\ save' = "pending"
    /\ UNCHANGED <<portalPage, imageVars, specVars, stock>>

SaveProduct ==
    /\ save = "pending" /\ save' \in {"done", "failed"}
    /\ UNCHANGED <<portalPage, imageVars, specVars, stock>>

\* The refetch of the products.
ProductsFetched ==
    /\ portalPage = "dashboard" /\ specsCached' = "saved"
    /\ UNCHANGED <<portalPage, imageVars, specsShared, save, stock>>

TypeQuantity ==
    /\ portalPage = "manage-stock" /\ stock' = [stock EXCEPT !.typed = ~@]
    /\ UNCHANGED <<portalPage, imageVars, specVars, save>>

\* The input is emptied at once, so that a failure has to be typed again.
AddStock ==
    /\ portalPage = "manage-stock" /\ stock.typed /\ ~stock.pending
    /\ stock' = [typed |-> FALSE, pending |-> TRUE]
    /\ UNCHANGED <<portalPage, imageVars, specVars, save>>

StockAnswered ==
    /\ stock.pending /\ stock' = [stock EXCEPT !.pending = FALSE]
    /\ UNCHANGED <<portalPage, imageVars, specVars, save>>

EditorNext ==
    \/ OpenPublish \/ OpenEdit \/ OpenStock \/ BackToDashboard
    \/ UploadImage \/ ImageUploaded \/ DragEnd
    \/ \E i \in 1..MaxImages : RemoveImage(i) \/ DragStart(i) \/ DragEnter(i)
    \/ TypeSpec \/ SubmitProduct \/ SaveProduct \/ ProductsFetched
    \/ TypeQuantity \/ AddStock \/ StockAnswered

EditorSpec == EditorInit /\ [][EditorNext]_editorVars

---------------------------------------------------------------------------
(* Properties. *)

\* The product's images are those uploaded and not removed, each once, in
\* whatever order the drags left them: also with an index an earlier drag
\* left behind, or an upload that ends in the middle of a drag
\* (PublishProductPage.tsx, handleDragEnd).
NoImageLost ==
    /\ kept = {images[i] : i \in DOMAIN images}
    /\ \A i, j \in DOMAIN images : images[i] = images[j] => i = j
=============================================================================
