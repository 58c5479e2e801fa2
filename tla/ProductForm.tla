------------------------------- MODULE ProductForm -------------------------------
(***************************************************************************)
(* The form in which the seller describes a product (ProductForm): its     *)
(* fields, and what is under way for them.  The cover and the gallery are  *)
(* uploaded independently, and each answer changes the fields as they are  *)
(* by then, but for what its handler remembers from the moment the button  *)
(* was pressed.                                                            *)
(*                                                                         *)
(* A picture stands for its URL.  Name, keywords and the introduction with *)
(* its two AI requests are left out.                                       *)
(* Definitions that a comment calls mutants are plausible bugs of the ones *)
(* they precede; nothing uses them.                                        *)
(***************************************************************************)
EXTENDS Naturals, Sequences, SequencesExt

CONSTANTS
  Pictures,  \* what can be uploaded
  None

ASSUME PicturesAssumption == None \notin Pictures

VARIABLES
  form,    \* the fields, or None when no form is on screen
  upload   \* what is under way for the form on screen

formVars == <<form, upload>>

(* What is saved; a saved product has a cover and pictures.                *)
Bodies == [ cover : Pictures, images : Seq(Pictures) \ {<<>>} ]

Fields == [ cover : Pictures \cup {None}, images : Seq(Pictures), saving : BOOLEAN ]

ASSUME NoneIsNoForm == None \notin Fields

(* The gallery's handler remembers the fields its button was pressed on.   *)
Uploads == [ cover   : Pictures \cup {None},
             gallery : [ urls : Seq(Pictures), saw : Fields ] \cup {None} ]

NoUpload == [ cover |-> None, gallery |-> None ]

EmptyForm == [ cover |-> None, images |-> <<>>, saving |-> FALSE ]

(* A form for a product starts with the product's fields.                  *)
FormOf(body) == [ cover |-> body.cover, images |-> body.images, saving |-> FALSE ]

(* Pictures the gallery did not have are added, one after the other.       *)
AddNew(all, images, url) == IF url \in Range(images) THEN all ELSE Append(all, url)

(* (Mutant: the pictures are added to those there were at the press.)      *)
AppendImagesSeen(images, urls, saw) ==
  FoldLeft(LAMBDA all, url : AddNew(all, saw.images, url), saw.images, urls)

AppendImages(images, urls, saw) ==
  FoldLeft(LAMBDA all, url : AddNew(all, images, url), images, urls)

--------------------------------------------------------------------------------
(* The fields may be changed at any time.                                  *)
TypeCover == \E p \in Pictures \cup {None} :
  /\ p # form.cover
  /\ form' = [ form EXCEPT !.cover = p ]
  /\ UNCHANGED upload

TypeImages ==
  /\ form.images # <<>>
  /\ form' = [ form EXCEPT !.images = <<>> ]
  /\ UNCHANGED upload

UploadCover ==
  /\ upload.cover = None /\ ~form.saving
  /\ \E p \in Pictures : upload' = [ upload EXCEPT !.cover = p ]
  /\ UNCHANGED form

(* The first picture of a product is its cover, too.                       *)
CoverReturns ==
  LET p == upload.cover
  IN  /\ p # None
      /\ upload' = [ upload EXCEPT !.cover = None ]
      /\ form' = [ form EXCEPT !.cover = p, !.images = IF @ = <<>> THEN <<p>> ELSE @ ]

(* Several files are uploaded one after the other.                         *)
UploadGallery ==
  /\ upload.gallery = None /\ ~form.saving
  /\ \E p, q \in Pictures : \E urls \in { <<p>>, <<p, q>> } :
       /\ IsInjective(urls)
       /\ upload' = [ upload EXCEPT !.gallery = [ urls |-> urls, saw |-> form ] ]
  /\ UNCHANGED form

(* The first becomes the cover where there was none at the press, whatever *)
(* the cover is by now.                                                    *)
GalleryReturns ==
  LET g == upload.gallery
  IN  /\ g # None
      /\ upload' = [ upload EXCEPT !.gallery = None ]
      /\ form' = [ form EXCEPT !.images = AppendImages(@, g.urls, g.saw),
                               !.cover = IF g.saw.cover = None THEN Head(g.urls) ELSE @ ]

(* An upload fails: of several files, those before it are dropped as well. *)
UploadFails ==
  /\ \/ upload.cover # None /\ upload' = [ upload EXCEPT !.cover = None ]
     \/ upload.gallery # None /\ upload' = [ upload EXCEPT !.gallery = None ]
  /\ UNCHANGED form

(* What the form saves; it insists on a cover or a picture to use as one.  *)
Complete == form.cover # None \/ form.images # <<>>

Body ==
  LET cover == IF form.cover # None THEN form.cover ELSE Head(form.images)
  IN  [ cover |-> cover, images |-> IF form.images = <<>> THEN <<cover>> ELSE form.images ]

(* The form is sent once at a time, and not while it waits for uploads.    *)
(* (Mutant: uploads do not hold it up.)                                    *)
CanSubmitWhileUploading == form # None /\ ~form.saving /\ Complete
CanSubmit == form # None /\ ~form.saving /\ upload = NoUpload /\ Complete

FormTypeOK ==
  /\ form \in Fields \cup {None}
  /\ upload \in Uploads
  /\ upload # NoUpload => form # None /\ ~form.saving
================================================================================
