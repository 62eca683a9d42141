------------------------------- MODULE Glance -------------------------------
(***************************************************************************)
(* internal/openstackapi/glance: the image registry.  The columns of an    *)
(* image never change; DELETE removes the row.                             *)
(***************************************************************************)
EXTENDS OpenStackApi

CONSTANT Images     \* image ids

VARIABLE image      \* glance_images

GetImage(i, c) == i \in Live(image) /\ (image[i].owner = c \/ image[i].public)

\* A public image is anyone's to see.
ShownImages(t, ids) == Shown(t, {image[i].owner : i \in {j \in ids : ~image[j].public}})

createImage(t, public) ==
  /\ requireProjectID(t)
  /\ \E i \in Mintable(image) : image' =
       [image EXCEPT ![i] = [born |-> TRUE, live |-> TRUE, owner |-> t, public |-> public]]
  /\ UNCHANGED request

\* Visibility says who may see an image, never who may delete it.
deleteImage(t, i) ==
  /\ requireProjectID(t)
  /\ i \in Live(image) /\ image[i].owner = t
  /\ image' = [image EXCEPT ![i].live = FALSE]
  /\ UNCHANGED request

listImages(t) ==
  /\ requireProjectID(t)
  /\ ShownImages(t, {i \in Images : GetImage(i, t)})
  /\ UNCHANGED image

getImage(t, i) ==
  /\ requireProjectID(t)
  /\ GetImage(i, t)
  /\ ShownImages(t, {i})
  /\ UNCHANGED image
=============================================================================
