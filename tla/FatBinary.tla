----------------------------- MODULE FatBinary -----------------------------
(* The container device images travel in (offload/fatbin.go, Fatbin) and the *)
(* walk the CUDA runtime makes over it (vcx_cudart.cpp, findImage).  Bytes   *)
(* are abstracted to offsets: a container is its size and the entries the    *)
(* writer placed, by the offset of each from the end of the header.          *)
EXTENDS Integers, Sequences, FiniteSetsExt

EntrySize == 80   \* what Fatbin writes before each payload
StructSize == 64  \* sizeof(FatbinEntry), what findImage asks to be left

\* What Fatbin is given for a device: PTX text, or a code object, for an
\* architecture.
Image == [kind : {"ptx", "elf"}, sm : Nat, len : Nat]

RoundUp(n) == ((n + 7) \div 8) * 8

\* A PTX image is text without its NUL; the container adds one.
Payload(im) == IF im.kind = "ptx" THEN im.len + 1 ELSE im.len

SizeUnpadded(im) == Payload(im)
SizeField(im) == RoundUp(Payload(im))

AppendImage(c, im) ==
  [size |-> RoundUp(c.size + EntrySize + Payload(im)),
   at |-> [p \in DOMAIN c.at \cup {c.size} |->
             IF p = c.size THEN [kind |-> im.kind, arch |-> im.sm, size |-> SizeField(im)]
             ELSE c.at[p]]]

\* The container after each of the images.
Written(images) ==
  LET c[i \in 0 .. Len(images)] ==
        IF i = 0 THEN [size |-> 0, at |-> [p \in {} |-> 0]] ELSE AppendImage(c[i - 1], images[i])
  IN c

\* Fatbin: an entry and its payload for each image, the whole padded to eight.
Fatbin(images) == Written(images)[Len(images)]

Takes(e, sm, best, bestArch) ==
  e.kind = "ptx" /\ e.arch <= sm /\ (best = 0 \/ e.arch > bestArch)

\* A turn of findImage's loop: p is where it reads, best where the payload it
\* would choose starts, 0 for none.  An offset at which the writer put no entry
\* reads as bytes of a payload, and -1 stands for what comes of that.
Turn(c, sm, w) ==
  IF w.p + StructSize > c.size THEN w
  ELSE IF w.p \notin DOMAIN c.at THEN [p |-> c.size, best |-> -1, arch |-> 0]
  ELSE LET e == c.at[w.p]
           next == w.p + EntrySize + e.size
       IN IF Takes(e, sm, w.best, w.arch) THEN [p |-> next, best |-> w.p + EntrySize, arch |-> e.arch]
          ELSE [w EXCEPT !.p = next]

Walked(c, sm) ==
  LET w[i \in Nat] == IF i = 0 THEN [p |-> 0, best |-> 0, arch |-> 0] ELSE Turn(c, sm, w[i - 1])
  IN w

\* A turn takes at least an entry's bytes, so that so many turns end the loop.
findImage(c, sm) == Walked(c, sm)[c.size \div StructSize].best

-----------------------------------------------------------------------------
(* What the walk is for, without the walk *)

Runnable(images, sm) == {i \in DOMAIN images : images[i].kind = "ptx" /\ images[i].sm <= sm}

\* The first image of the newest architecture the device runs, 0 for none.
Newest(images, sm) ==
  LET R == Runnable(images, sm)
  IN IF R = {} THEN 0
     ELSE Min({i \in R : \A j \in R : images[j].sm <= images[i].sm})

\* Where the payload of image i starts.
PayloadAt(images, i) == Written(images)[i - 1].size + EntrySize
=============================================================================
