-------------------------- MODULE Renderer_proofs --------------------------
(***************************************************************************)
(* The renderer for any sizes and any number of pictures and surfaces: its *)
(* types, that at most one Runnable is queued, that pictures of one size   *)
(* are drawn whole, that what is drawn fills the screen, and that planes   *)
(* and copies of a picture stay in their buffers.                          *)
(***************************************************************************)
EXTENDS Renderer, SequenceTheorems, TLAPS

\* Who has the lock.
Locks ==
    /\ lock = "gl" <=> gl \in {"run", "load", "draw"}
    /\ lock = "sender" <=> sender = "put"

\* The sender adds to an empty queue only, which nobody else adds to.
Queued == Len(mRunOnDraw) <= 1 /\ (sender = "add" => mRunOnDraw = <<>>)

\* The picture the sender thread has at hand.
Handed == sender # "idle" => Picture >= 1 /\ javaArray = [len |-> argb_size(Size), pic |-> Picture]

\* No picture has come as far as the queue.
Nothing == mRunOnDraw = <<>> /\ gl # "load" /\ mGLTextureId = NO_IMAGE /\ screen = NO_IMAGE

Good(t) == t = NO_IMAGE \/ (t.pic >= 1 /\ t.alloc = sizes[1] /\ t.as = sizes[1])

Filled == mGLRgbBuffer.len = argb_size(sizes[1]) /\ Picture >= 1
Unused == mGLRgbBuffer = [len |-> 0, pic |-> Zeros] /\ sender \in {"idle", "buffer"}

\* Pictures of one size: the buffer is replaced once, before anything is queued.
Whole ==
    /\ Filled \/ Unused
    /\ mGLRgbBuffer.pic = Zeros =>
         Nothing /\ sender \in {"idle", "buffer", "lock"} /\ (sender = "idle" => Picture = 0)
    /\ \A i \in 1 .. Len(mRunOnDraw) : mRunOnDraw[i] = sizes[1]
    /\ gl = "load" => job = sizes[1]
    /\ Good(mGLTextureId) /\ Good(screen)

Torn == mGLRgbBuffer.pic = Half => sender = "put"

\* What a draw needs: a surface with a size, and a cube for it and the picture.
Ready ==
    /\ gl # "idle" => surface /\ ~changed
    /\ ~changed => outputSize = 1
    /\ mGLTextureId # NO_IMAGE => imageSize # NoSize
    /\ outputSize = 1 /\ imageSize # NoSize => cube = "full"

LEMMA LengthPositive ==
  ASSUME NEW s \in Sizes
  PROVE  argb_size(s) \in Nat \ {0} /\ s # NoSize /\ s[1] \in Nat \ {0} /\ s[2] \in Nat \ {0}
<1>1. s[1] \in Nat \ {0} /\ s[2] \in Nat \ {0} /\ s = <<s[1], s[2]>>
  BY RendererAssumption
<1>2. ASSUME NEW a \in Nat \ {0}, NEW b \in Nat \ {0} PROVE 4 * a * b \in Nat \ {0}
  OBVIOUS
<1> QED BY <1>1, <1>2 DEF argb_size, NoSize

LEMMA LengthsHold == 0 \in Lengths /\ \A s \in Sizes : argb_size(s) \in Lengths
BY DEF Lengths

LEMMA Blank == NO_IMAGE \in Texture
BY RendererAssumption DEF NO_IMAGE, Texture, AnySize, Half

LEMMA Refill ==
  ASSUME NEW b \in [len : Lengths, pic : Half .. MaxPictures], NEW p \in Half .. MaxPictures
  PROVE  [b EXCEPT !.pic = p] \in [len : Lengths, pic : Half .. MaxPictures]
OBVIOUS

LEMMA TypeInit == Init => TypeOK
<1> SUFFICES ASSUME Init PROVE TypeOK
  OBVIOUS
<1>1. sizes \in Seq(Sizes) /\ mRunOnDraw \in Seq(Sizes) /\ Picture = 0
  BY DEF Init, Picture
<1>2. /\ javaArray \in [len : Lengths, pic : 0 .. MaxPictures]
      /\ mGLRgbBuffer \in [len : Lengths, pic : Half .. MaxPictures]
  BY RendererAssumption, LengthsHold DEF Init, Half, Zeros
<1>3. {mGLTextureId, screen} \subseteq Texture
  BY Blank DEF Init
<1> QED
  <2>1. /\ lost \in 0 .. MaxSurfaces /\ Picture <= MaxPictures
        /\ {requested, surface, changed} \subseteq BOOLEAN
    <3>1. lost \in 0 .. MaxSurfaces /\ Picture <= MaxPictures
      BY <1>1, RendererAssumption DEF Init
    <3>2. {requested, surface, changed} \subseteq BOOLEAN
      BY Zenon DEF Init
    <3> QED BY <3>1, <3>2
  <2> QED
    BY <1>1, <1>2, <1>3, <2>1 DEF Init, TypeOK, AnySize

LEMMA TypeNext ==
  ASSUME TypeOK, Handed, [Next]_vars
  PROVE  TypeOK'
<1> USE RendererAssumption DEF TypeOK, senderVars, glVars, viewVars, Picture, AnySize, Half, Zeros
<1>1. ASSUME NEW size \in Sizes, OnFrame(size) PROVE TypeOK'
  BY <1>1, LengthsHold DEF OnFrame, toARGB
<1>2. CASE Buffer
  BY <1>2 DEF Buffer
<1>3. CASE Lock
  <2>1. mGLRgbBuffer' \in [len : Lengths, pic : Half .. MaxPictures]
    <3>1. Half \in Half .. MaxPictures
      OBVIOUS
    <3> QED
      BY <1>3, <3>1, Refill DEF Lock
  <2> QED
    BY <1>3, <2>1 DEF Lock
<1>4. CASE Put
  <2>1. mGLRgbBuffer' \in [len : Lengths, pic : Half .. MaxPictures]
    <3>1. javaArray.pic \in Half .. MaxPictures
      OBVIOUS
    <3> QED
      BY <1>4, <3>1, Refill DEF Put
  <2> QED
    BY <1>4, <2>1 DEF Put
<1>5. CASE Look
  BY <1>5 DEF Look
<1>6. CASE Add
  BY <1>6 DEF Add, Size, Handed
<1>7. CASE RequestRender
  BY <1>7 DEF RequestRender
<1>8. CASE OnSurfaceChanged
  BY <1>8 DEF OnSurfaceChanged, adjustImageScaling
<1>9. CASE OnDrawFrame
  BY <1>9 DEF OnDrawFrame
<1>10. CASE GlLock
  BY <1>10 DEF GlLock
<1>11. CASE Poll
  BY <1>11, LengthPositive DEF Poll
<1>12. CASE Run
  <2>1. mGLRgbBuffer.pic \in Half .. MaxPictures /\ job \in AnySize
    OBVIOUS
  <2>2. loadTexture(mGLTextureId, mGLRgbBuffer, job) \in Texture
    BY <2>1 DEF loadTexture, Texture
  <2> QED
    BY <1>12, <2>2 DEF Run, adjustImageScaling
<1>13. CASE AllRun
  BY <1>13 DEF AllRun
<1>14. CASE Draw
  BY <1>14 DEF Draw
<1>15. CASE SurfaceDestroyed
  <2>1. lost' \in 0 .. MaxSurfaces
    BY <1>15 DEF SurfaceDestroyed
  <2>2. {requested', surface', changed'} \subseteq BOOLEAN
    BY <1>15 DEF SurfaceDestroyed
  <2> QED
    BY <1>15, <2>1, <2>2 DEF SurfaceDestroyed
<1>16. CASE SurfaceCreated
  BY <1>16 DEF SurfaceCreated
<1>17. CASE UNCHANGED vars
  BY <1>17 DEF vars, viewVars
<1> QED
  BY <1>1, <1>2, <1>3, <1>4, <1>5, <1>6, <1>7, <1>8, <1>9, <1>10, <1>11, <1>12, <1>13, <1>14, <1>15, <1>16, <1>17 DEF Next, Sender, GLThread

LEMMA LocksNext ==
  ASSUME Locks, [Next]_vars
  PROVE  Locks'
<1> USE RendererAssumption DEF Locks, senderVars, glVars
<1>1. ASSUME NEW size \in Sizes, OnFrame(size) PROVE Locks'
  BY <1>1 DEF OnFrame
<1>2. CASE Buffer
  BY <1>2 DEF Buffer
<1>3. CASE Lock
  BY <1>3 DEF Lock
<1>4. CASE Put
  BY <1>4 DEF Put
<1>5. CASE Look
  BY <1>5 DEF Look
<1>6. CASE Add
  BY <1>6 DEF Add
<1>7. CASE RequestRender
  BY <1>7 DEF RequestRender
<1>8. CASE OnSurfaceChanged
  BY <1>8 DEF OnSurfaceChanged
<1>9. CASE OnDrawFrame
  BY <1>9 DEF OnDrawFrame
<1>10. CASE GlLock
  BY <1>10 DEF GlLock
<1>11. CASE Poll
  BY <1>11 DEF Poll
<1>12. CASE Run
  BY <1>12 DEF Run
<1>13. CASE AllRun
  BY <1>13 DEF AllRun
<1>14. CASE Draw
  BY <1>14 DEF Draw
<1>15. CASE SurfaceDestroyed
  BY <1>15 DEF SurfaceDestroyed
<1>16. CASE SurfaceCreated
  BY <1>16 DEF SurfaceCreated
<1>17. CASE UNCHANGED vars
  BY <1>17 DEF vars, viewVars
<1> QED
  BY <1>1, <1>2, <1>3, <1>4, <1>5, <1>6, <1>7, <1>8, <1>9, <1>10, <1>11, <1>12, <1>13, <1>14, <1>15, <1>16, <1>17 DEF Next, Sender, GLThread

LEMMA QueuedNext ==
  ASSUME TypeOK, Queued, [Next]_vars
  PROVE  Queued'
<1> USE RendererAssumption DEF Queued, TypeOK, senderVars, glVars
<1>1. ASSUME NEW size \in Sizes, OnFrame(size) PROVE Queued'
  BY <1>1 DEF OnFrame
<1>2. CASE Buffer
  BY <1>2 DEF Buffer
<1>3. CASE Lock
  BY <1>3 DEF Lock
<1>4. CASE Put
  BY <1>4 DEF Put
<1>5. CASE Look
  BY <1>5 DEF Look
<1>6. CASE Add
  BY <1>6 DEF Add
<1>7. CASE RequestRender
  BY <1>7 DEF RequestRender
<1>8. CASE OnSurfaceChanged
  BY <1>8 DEF OnSurfaceChanged
<1>9. CASE OnDrawFrame
  BY <1>9 DEF OnDrawFrame
<1>10. CASE GlLock
  BY <1>10 DEF GlLock
<1>11. CASE Poll
  BY <1>11 DEF Poll
<1>12. CASE Run
  BY <1>12 DEF Run
<1>13. CASE AllRun
  BY <1>13 DEF AllRun
<1>14. CASE Draw
  BY <1>14 DEF Draw
<1>15. CASE SurfaceDestroyed
  BY <1>15 DEF SurfaceDestroyed
<1>16. CASE SurfaceCreated
  BY <1>16 DEF SurfaceCreated
<1>17. CASE UNCHANGED vars
  BY <1>17 DEF vars, viewVars
<1> QED
  BY <1>1, <1>2, <1>3, <1>4, <1>5, <1>6, <1>7, <1>8, <1>9, <1>10, <1>11, <1>12, <1>13, <1>14, <1>15, <1>16, <1>17 DEF Next, Sender, GLThread

LEMMA HandedNext ==
  ASSUME TypeOK, Handed, [Next]_vars
  PROVE  Handed'
<1> USE RendererAssumption DEF Handed, TypeOK, Picture, Size, senderVars
<1>1. ASSUME NEW size \in Sizes, OnFrame(size) PROVE Handed'
  BY <1>1 DEF OnFrame, toARGB
<1>2. CASE Buffer
  BY <1>2 DEF Buffer
<1>3. CASE Lock
  BY <1>3 DEF Lock
<1>4. CASE Put
  BY <1>4 DEF Put
<1>5. CASE Look
  BY <1>5 DEF Look
<1>6. CASE Add
  BY <1>6 DEF Add
<1>7. CASE RequestRender
  BY <1>7 DEF RequestRender
<1>8. CASE OnSurfaceChanged
  BY <1>8 DEF OnSurfaceChanged
<1>9. CASE OnDrawFrame
  BY <1>9 DEF OnDrawFrame
<1>10. CASE GlLock
  BY <1>10 DEF GlLock
<1>11. CASE Poll
  BY <1>11 DEF Poll
<1>12. CASE Run
  BY <1>12 DEF Run
<1>13. CASE AllRun
  BY <1>13 DEF AllRun
<1>14. CASE Draw
  BY <1>14 DEF Draw
<1>15. CASE SurfaceDestroyed
  BY <1>15 DEF SurfaceDestroyed
<1>16. CASE SurfaceCreated
  BY <1>16 DEF SurfaceCreated
<1>17. CASE UNCHANGED vars
  BY <1>17 DEF vars, viewVars
<1> QED
  BY <1>1, <1>2, <1>3, <1>4, <1>5, <1>6, <1>7, <1>8, <1>9, <1>10, <1>11, <1>12, <1>13, <1>14, <1>15, <1>16, <1>17 DEF Next, Sender, GLThread

LEMMA ReadyNext ==
  ASSUME TypeOK, Ready, [Next]_vars
  PROVE  Ready'
<1> USE RendererAssumption DEF Ready, TypeOK, glVars, viewVars
<1>1. ASSUME NEW size \in Sizes, OnFrame(size) PROVE Ready'
  BY <1>1 DEF OnFrame
<1>2. CASE Buffer
  BY <1>2 DEF Buffer
<1>3. CASE Lock
  BY <1>3 DEF Lock
<1>4. CASE Put
  BY <1>4 DEF Put
<1>5. CASE Look
  BY <1>5 DEF Look
<1>6. CASE Add
  BY <1>6 DEF Add
<1>7. CASE RequestRender
  BY <1>7 DEF RequestRender
<1>8. CASE OnSurfaceChanged
  BY <1>8 DEF OnSurfaceChanged, adjustImageScaling
<1>9. CASE OnDrawFrame
  BY <1>9 DEF OnDrawFrame
<1>10. CASE GlLock
  BY <1>10 DEF GlLock
<1>11. CASE Poll
  BY <1>11 DEF Poll
<1>12. CASE Run
  BY <1>12, LengthPositive DEF Run, AnySize, NoSize, adjustImageScaling, loadTexture, NO_IMAGE
<1>13. CASE AllRun
  BY <1>13 DEF AllRun
<1>14. CASE Draw
  BY <1>14 DEF Draw
<1>15. CASE SurfaceDestroyed
  BY <1>15 DEF SurfaceDestroyed
<1>16. CASE SurfaceCreated
  BY <1>16 DEF SurfaceCreated
<1>17. CASE UNCHANGED vars
  BY <1>17 DEF vars, viewVars
<1> QED
  BY <1>1, <1>2, <1>3, <1>4, <1>5, <1>6, <1>7, <1>8, <1>9, <1>10, <1>11, <1>12, <1>13, <1>14, <1>15, <1>16, <1>17 DEF Next, Sender, GLThread

LEMMA TornNext ==
  ASSUME TypeOK, Torn, Handed, [Next]_vars
  PROVE  Torn'
<1> USE RendererAssumption DEF Torn, TypeOK, Half, Zeros, senderVars
<1>1. ASSUME NEW size \in Sizes, OnFrame(size) PROVE Torn'
  BY <1>1 DEF OnFrame
<1>2. CASE Buffer
  BY <1>2 DEF Buffer
<1>3. CASE Lock
  BY <1>3 DEF Lock
<1>4. CASE Put
  BY <1>4 DEF Put, Handed
<1>5. CASE Look
  BY <1>5 DEF Look
<1>6. CASE Add
  BY <1>6 DEF Add
<1>7. CASE RequestRender
  BY <1>7 DEF RequestRender
<1>8. CASE OnSurfaceChanged
  BY <1>8 DEF OnSurfaceChanged
<1>9. CASE OnDrawFrame
  BY <1>9 DEF OnDrawFrame
<1>10. CASE GlLock
  BY <1>10 DEF GlLock
<1>11. CASE Poll
  BY <1>11 DEF Poll
<1>12. CASE Run
  BY <1>12 DEF Run
<1>13. CASE AllRun
  BY <1>13 DEF AllRun
<1>14. CASE Draw
  BY <1>14 DEF Draw
<1>15. CASE SurfaceDestroyed
  BY <1>15 DEF SurfaceDestroyed
<1>16. CASE SurfaceCreated
  BY <1>16 DEF SurfaceCreated
<1>17. CASE UNCHANGED vars
  BY <1>17 DEF vars, viewVars
<1> QED
  BY <1>1, <1>2, <1>3, <1>4, <1>5, <1>6, <1>7, <1>8, <1>9, <1>10, <1>11, <1>12, <1>13, <1>14, <1>15, <1>16, <1>17 DEF Next, Sender, GLThread

LEMMA AtMostOne ==
  ASSUME NEW n \in Nat, n <= 1, n # 0
  PROVE  n = 1
OBVIOUS

LEMMA OneLeft ==
  ASSUME NEW q \in Seq(Sizes), q # <<>>, Len(q) <= 1
  PROVE  Len(q) = 1 /\ Head(q) = q[1] /\ Tail(q) = <<>>
<1>1. Len(q) = 1 /\ Head(q) = q[1]
  <2>1. Len(q) # 0
    BY EmptySeq
  <2>2. Len(q) = 1
    <3>1. Len(q) \in Nat /\ Len(q) <= 1
      OBVIOUS
    <3> QED
      BY <2>1, <3>1, AtMostOne
  <2>3. Head(q) = q[1]
    OBVIOUS
  <2> QED
    BY <2>2, <2>3
<1>2. Tail(q) \in Seq(Sizes) /\ Len(Tail(q)) = 0
  BY <1>1
<1>3. \A r \in Seq(Sizes) : Len(r) = 0 => r = <<>>
  OBVIOUS
<1> QED
  BY <1>1, <1>2, <1>3

LEMMA WholeNext ==
  ASSUME TypeOK, Locks, Queued, Handed, Torn, OneSize => Whole, OneSize', [Next]_vars
  PROVE  Whole'
<1> USE RendererAssumption DEF TypeOK, Half, Zeros, Whole, senderVars, glVars
<1>1. ASSUME NEW size \in Sizes, OnFrame(size) PROVE Whole'
  <2>1. Picture' = Picture + 1 /\ \A p \in 1 .. Picture : sizes'[p] = sizes[p]
    BY <1>1 DEF OnFrame, Picture
  <2>2. OneSize
    BY <2>1 DEF OneSize, Picture
  <2>3. CASE Picture = 0
    <3>1. Unused /\ mGLRgbBuffer.pic = Zeros /\ sender = "idle"
      BY <1>1, <2>2, <2>3 DEF Unused, Filled, Picture, OnFrame
    <3> QED
      BY <1>1, <2>2, <3>1 DEF OnFrame, Unused, Nothing, Good
  <2>4. CASE Picture >= 1
    <3>1. sizes'[1] = sizes[1] /\ mGLRgbBuffer.pic # Zeros
      BY <1>1, <2>1, <2>2, <2>4 DEF OnFrame
    <3>2. Filled
      BY <2>2, <3>1 DEF Unused
    <3>3. Filled'
      BY <3>1, <3>2, <1>1, <2>1 DEF Filled, Picture, OnFrame
    <3>4. mRunOnDraw' = mRunOnDraw /\ gl' = gl /\ job' = job /\ mGLRgbBuffer' = mGLRgbBuffer
      BY <1>1 DEF OnFrame
    <3>5. Good(mGLTextureId)' /\ Good(screen)'
      BY <1>1, <2>2, <3>1 DEF OnFrame, Good
    <3> QED
      BY <2>2, <3>1, <3>3, <3>4, <3>5
  <2> QED
    BY <2>3, <2>4 DEF Picture
<1>2. CASE Buffer
  <2>1. OneSize /\ Picture >= 1 /\ Size = sizes[1] /\ javaArray.len = argb_size(sizes[1]) /\ sizes[1] \in Sizes
    BY <1>2 DEF Buffer, OneSize, Handed, Size, Picture
  <2>2. (Nothing' /\ mGLRgbBuffer'.pic = Zeros) \/ mGLRgbBuffer' = mGLRgbBuffer
    BY <1>2, <2>1, LengthPositive DEF Buffer, Filled, Unused, Nothing
  <2>3. Filled'
    BY <1>2, <2>1 DEF Buffer, Filled, Picture
  <2> QED
    BY <1>2, <2>1, <2>2, <2>3 DEF Buffer, Nothing, Good
<1>3. CASE Lock
  BY <1>3 DEF Lock, Filled, Unused, Nothing, Good, Picture, OneSize
<1>4. CASE Put
  <2>1. OneSize /\ mGLRgbBuffer'.pic >= 1 /\ mGLRgbBuffer'.len = mGLRgbBuffer.len /\ Picture >= 1
    BY <1>4 DEF Put, OneSize, Picture, Handed
  <2> QED
    BY <1>4, <2>1 DEF Put, Filled, Unused, Nothing, Good, Picture
<1>5. CASE Look
  BY <1>5 DEF Look, Filled, Unused, Nothing, Good, Picture, OneSize
<1>6. CASE Add
  <2>1. OneSize /\ Size = sizes[1] /\ mRunOnDraw' = <<sizes[1]>>
    BY <1>6 DEF Add, OneSize, Handed, Size, Picture, Queued
  <2>2. \A i \in 1 .. Len(mRunOnDraw') : mRunOnDraw'[i] = sizes[1]
    BY <2>1
  <2> QED
    BY <1>6, <2>1, <2>2 DEF Add, Filled, Unused, Nothing, Good, Picture
<1>7. CASE RequestRender
  BY <1>7 DEF RequestRender, Filled, Unused, Nothing, Good, Picture, OneSize
<1>8. CASE OnSurfaceChanged
  BY <1>8 DEF OnSurfaceChanged, Filled, Unused, Nothing, Good, Picture, OneSize
<1>9. CASE OnDrawFrame
  BY <1>9 DEF OnDrawFrame, Filled, Unused, Nothing, Good, Picture, OneSize
<1>10. CASE GlLock
  BY <1>10 DEF GlLock, Filled, Unused, Nothing, Good, Picture, OneSize
<1>11. CASE Poll
  <2>1. /\ OneSize /\ Head(mRunOnDraw) = mRunOnDraw[1] /\ mRunOnDraw' = <<>>
        /\ Len(mRunOnDraw) = 1
    <3>1. OneSize
      BY <1>11 DEF Poll, OneSize, Picture
    <3>2. Len(mRunOnDraw) = 1
      BY <1>11, OneLeft DEF Poll, Queued
    <3>3. mRunOnDraw \in Seq(Sizes) /\ mRunOnDraw # <<>> /\ Len(mRunOnDraw) <= 1
      BY <1>11, <3>2 DEF Poll
    <3>4. Head(mRunOnDraw) = mRunOnDraw[1] /\ Tail(mRunOnDraw) = <<>>
      BY <3>3, OneLeft
    <3> QED
      BY <1>11, <3>1, <3>2, <3>4 DEF Poll
  <2>2. \A i \in 1 .. Len(mRunOnDraw') : mRunOnDraw'[i] = sizes[1]
    BY <2>1
  <2>3. job' = sizes[1]
    BY <1>11, <2>1 DEF Poll
  <2>4. ~Nothing /\ (Filled \/ Unused)'
    BY <1>11, <2>1 DEF Poll, Nothing, Filled, Unused, Picture
  <2> QED
    BY <1>11, <2>1, <2>2, <2>3, <2>4 DEF Poll, Filled, Unused, Nothing, Good, Picture
<1>12. CASE Run
  <2>1. OneSize /\ job = sizes[1] /\ mGLRgbBuffer.pic >= 1
    BY <1>12 DEF Run, OneSize, Picture, Nothing, Torn, Locks
  <2>2. sizes[1] \in Sizes
    BY <2>1, <1>12 DEF Filled, Unused, Nothing, Run, Picture
  <2>3. Good(loadTexture(mGLTextureId, mGLRgbBuffer, job))
    BY <2>1, <2>2, LengthPositive DEF loadTexture, Good
  <2> QED
    BY <1>12, <2>1, <2>3 DEF Run, Good, Filled, Unused, Nothing, Picture
<1>13. CASE AllRun
  BY <1>13 DEF AllRun, Filled, Unused, Nothing, Good, Picture, OneSize
<1>14. CASE Draw
  BY <1>14 DEF Draw, Filled, Unused, Nothing, Good, Picture, OneSize
<1>15. CASE SurfaceDestroyed
  BY <1>15 DEF SurfaceDestroyed, Filled, Unused, Nothing, Good, Picture, OneSize
<1>16. CASE SurfaceCreated
  BY <1>16 DEF SurfaceCreated, Filled, Unused, Nothing, Good, Picture, OneSize
<1>17. CASE UNCHANGED vars
  BY <1>17 DEF vars, viewVars, Filled, Unused, Nothing, Good, Picture, OneSize
<1> QED
  BY <1>1, <1>2, <1>3, <1>4, <1>5, <1>6, <1>7, <1>8, <1>9, <1>10, <1>11, <1>12, <1>13, <1>14, <1>15, <1>16, <1>17 DEF Next, Sender, GLThread

\* What is inductive: the types, the lock, the queue, the picture at hand, the
\* buffer and the cube.
IInv ==
    /\ TypeOK /\ Locks /\ Queued /\ Handed /\ Torn /\ Ready
    /\ OneSize => Whole

LEMMA Inductive == Spec => []IInv
<1>1. Init => IInv
  <2> SUFFICES ASSUME Init PROVE IInv
    OBVIOUS
  <2>1. TypeOK
    BY TypeInit
  <2>2. Locks /\ Queued /\ Handed
    BY DEF Init, Locks, Queued, Handed
  <2>3. Torn /\ Ready
    BY DEF Init, Torn, Ready, Half, Zeros
  <2>4. Whole
    BY DEF Init, Whole, Unused, Nothing, Good, Picture
  <2> QED
    BY <2>1, <2>2, <2>3, <2>4 DEF IInv
<1>2. IInv /\ [Next]_vars => IInv'
  BY TypeNext, LocksNext, QueuedNext, HandedNext, TornNext, ReadyNext, WholeNext DEF IInv
<1> QED
  BY <1>1, <1>2, PTL DEF Spec

\* Type correctness, for any sizes, any number of pictures and of surfaces lost.
THEOREM TypeCorrect == Spec => []TypeOK
<1>1. IInv => TypeOK
  BY DEF IInv
<1> QED
  BY <1>1, Inductive, PTL

\* VideoRender.onPreviewFrame may test the queue and add to it in two steps: no
\* second Runnable is ever queued.
THEOREM OneRunnableAlways == Spec => []OneRunnable
<1>1. IInv => OneRunnable
  BY DEF IInv, Queued, OneRunnable
<1> QED
  BY <1>1, Inductive, PTL

\* Whichever comes first, the picture or the size of the surface, the rectangle a
\* picture is drawn into is not empty.
THEOREM FillsScreenAlways == Spec => []FillsScreen
<1>1. IInv => FillsScreen
  BY DEF IInv, Ready, FillsScreen
<1> QED
  BY <1>1, Inductive, PTL

\* As long as all pictures have one size the screen shows no half-written, blank or
\* wrongly cut picture, although the sender thread replaces the buffer the GL thread
\* reads outside the lock.
THEOREM DrawnWholeAlways == Spec => []DrawnWhole
<1>1. IInv => DrawnWhole
  <2> SUFFICES ASSUME IInv, OneSize, screen # NO_IMAGE
               PROVE  screen.pic >= 1 /\ screen.alloc = Size /\ screen.as = Size
    BY DEF DrawnWhole
  <2>1. Whole
    BY DEF IInv
  <2>2. Picture \in Nat /\ Picture >= 1
    BY <2>1 DEF IInv, TypeOK, Whole, Filled, Unused, Nothing, Picture, Zeros
  <2>3. Size = sizes[1]
    BY <2>2 DEF OneSize, Size
  <2> QED
    BY <2>1, <2>3 DEF Whole, Good
<1> QED
  BY <1>1, Inductive, PTL

(***************************************************************************)
(* The planes of a picture                                                 *)
(***************************************************************************)
\* A quotient and a remainder make up the number.
LEMMA Division ==
  ASSUME NEW n \in Nat, NEW k \in Nat \ {0}
  PROVE  n = k * (n \div k) + (n % k) /\ n \div k \in Int /\ n % k \in 0 .. k - 1
<1>1. n % k \in 0 .. k - 1
  OBVIOUS
<1>2. n \div k \in Int
  OBVIOUS
<1>3. n = k * (n \div k) + (n % k)
  OBVIOUS
<1> QED
  BY <1>1, <1>2, <1>3

\* A multiple of k that is greater is greater by k at least.
LEMMA Times ==
  ASSUME NEW k \in Nat \ {0}, NEW a \in Int, NEW b \in Int, a < b
  PROVE  k * b >= k * a + k
<1>1. k * (b - a) >= k
  OBVIOUS
<1>2. k * (b - a) = k * b - k * a
  OBVIOUS
<1> QED
  BY <1>1, <1>2

\* There is no other quotient and remainder.
LEMMA Divided ==
  ASSUME NEW k \in Nat \ {0}, NEW q \in Int, NEW r \in 0 .. k - 1, NEW n \in Nat, n = k * q + r
  PROVE  n \div k = q /\ n % k = r
<1> DEFINE p == n \div k
           s == n % k
<1>1. n = k * p + s /\ p \in Int /\ s \in 0 .. k - 1
  BY Division
<1> HIDE DEF p, s
<1>2. k * p \in Int /\ k * q \in Int
  BY <1>1
<1>3. ~(p < q)
  <2>1. ASSUME p < q PROVE k * q >= k * p + k
    BY <1>1, <2>1, Times
  <2> QED
    BY <1>1, <1>2, <2>1
<1>4. ~(q < p)
  <2>1. ASSUME q < p PROVE k * p >= k * q + k
    BY <1>1, <2>1, Times
  <2> QED
    BY <1>1, <1>2, <2>1
<1>5. p = q /\ s = r
  BY <1>1, <1>2, <1>3, <1>4
<1> QED
  BY <1>5 DEF p, s

LEMMA Halved ==
  ASSUME NEW n \in Nat \ {0}, n % 2 = 0
  PROVE  \E m \in Nat \ {0} : n = 2 * m /\ n \div 2 = m /\ (n + 1) \div 2 = m
<1> DEFINE m == n \div 2
<1>1. n = 2 * m /\ m \in Nat \ {0} /\ (n + 1) \div 2 = m
  OBVIOUS
<1> QED
  BY <1>1

\* Align goes up to the next multiple, which is also the codec's.
LEMMA AlignUp ==
  ASSUME NEW n \in Nat \ {0}, NEW k \in Nat \ {0}
  PROVE  Align(n, k) \in Nat \ {0} /\ Align(n, k) >= n /\ k * ((n + k - 1) \div k) = Align(n, k)
<1> DEFINE q == n \div k
           r == n % k
<1>1. n = k * q + r /\ q \in Int /\ r \in 0 .. k - 1
  BY Division
<1>2. Align(n, k) = IF r > 0 THEN k * (q + 1) ELSE n
  BY DEF Align
<1> HIDE DEF q, r
<1>3. k * q \in Int /\ k * (q + 1) = k * q + k
  BY <1>1
<1>4. \A x \in Int, y \in 0 .. k - 1 : n + k - 1 = k * x + y => (n + k - 1) \div k = x
  <2> SUFFICES ASSUME NEW x \in Int, NEW y \in 0 .. k - 1, n + k - 1 = k * x + y
               PROVE  (n + k - 1) \div k = x
    OBVIOUS
  <2>1. n + k - 1 \in Nat
    OBVIOUS
  <2> QED
    BY <2>1, Divided
<1>5. CASE r > 0
  <2>1. n + k - 1 = k * (q + 1) + (r - 1) /\ r - 1 \in 0 .. k - 1 /\ q + 1 \in Int
    BY <1>1, <1>3, <1>5
  <2>2. (n + k - 1) \div k = q + 1
    BY <1>4, <2>1
  <2> QED
    BY <1>1, <1>2, <1>3, <1>5, <2>2
<1>6. CASE r = 0
  <2>1. n + k - 1 = k * q + (k - 1) /\ k - 1 \in 0 .. k - 1
    BY <1>1, <1>3, <1>6
  <2>2. (n + k - 1) \div k = q
    BY <1>1, <1>4, <2>1
  <2> QED
    BY <1>1, <1>2, <1>3, <1>6, <2>2
<1> QED
  BY <1>1, <1>5, <1>6

LEMMA RowsEven ==
  ASSUME NEW n \in Nat \ {0}, n % 2 = 0
  PROVE  Align(n, 32) % 2 = 0
BY DEF Align

\* Planes in a packet of a length do not share a byte.
Fit(planes, length) ==
    /\ \A p \in planes : LastByte(p) <= length /\ p.width <= p.stride
    /\ \A p, q \in planes : p = q \/ LastByte(p) <= q.at \/ LastByte(q) <= p.at

LEMMA Grows ==
  ASSUME NEW c \in Nat \ {0}, NEW x \in Nat, NEW y \in Nat, x <= y
  PROVE  c * x \in Nat /\ c * y \in Nat /\ c * x <= c * y
<1>1. c * x \in Nat /\ c * y \in Nat
  OBVIOUS
<1>2. CASE x = y
  BY <1>1, <1>2
<1>3. CASE x < y
  <2>1. c * y >= c * x + c
    BY <1>3, Times
  <2> QED
    BY <1>1, <2>1
<1> QED
  BY <1>2, <1>3

\* Two planes: a picture of 2a by 2b in rows of c, 2e of luma and e of chroma.
LEMMA TwoPlanes ==
  ASSUME NEW a \in Nat \ {0}, NEW b \in Nat \ {0}, NEW c \in Nat \ {0}, NEW e \in Nat \ {0},
         2 * a <= c, b <= e
  PROVE  Fit({[at |-> 0, stride |-> c, rows |-> 2 * b, width |-> 2 * a],
              [at |-> c * (2 * e), stride |-> c, rows |-> b, width |-> 2 * a]},
             (3 * c * (2 * e)) \div 2)
<1> DEFINE y == [at |-> 0, stride |-> c, rows |-> 2 * b, width |-> 2 * a]
           uv == [at |-> c * (2 * e), stride |-> c, rows |-> b, width |-> 2 * a]
           g == c * e
           h == c * b
<1>1. g \in Nat /\ h \in Nat /\ h <= g
  BY Grows
<1>2. /\ c * (2 * b - 1) = 2 * h - c /\ c * (b - 1) = h - c
      /\ c * (2 * e) = 2 * g /\ 3 * c * (2 * e) = 6 * g
  OBVIOUS
<1> HIDE DEF g, h
<1>3. LastByte(y) = (2 * h - c) + 2 * a /\ LastByte(uv) = 2 * g + (h - c) + 2 * a
  BY <1>2 DEF LastByte
<1>4. (3 * c * (2 * e)) \div 2 = 3 * g
  BY <1>1, <1>2
<1>5. LastByte(y) <= uv.at /\ LastByte(y) <= 3 * g /\ LastByte(uv) <= 3 * g
  BY <1>1, <1>2, <1>3
<1>6. y.width <= y.stride /\ uv.width <= uv.stride
  OBVIOUS
<1> HIDE DEF y, uv
<1>7. Fit({y, uv}, 3 * g)
  BY <1>5, <1>6 DEF Fit
<1> QED
  BY <1>4, <1>7 DEF y, uv

\* I420: three planes without padding.
LEMMA ThreePlanes ==
  ASSUME NEW a \in Nat \ {0}, NEW b \in Nat \ {0}
  PROVE  LET uv == 2 * a * (2 * b)
         IN  Fit({[at |-> 0, stride |-> 2 * a, rows |-> 2 * b, width |-> 2 * a],
                  [at |-> uv, stride |-> a, rows |-> b, width |-> a],
                  [at |-> uv + (a * (2 * b)) \div 2, stride |-> a, rows |-> b, width |-> a]},
                 (3 * (2 * a) * (2 * b)) \div 2)
<1> DEFINE g == a * b
           uv == 2 * a * (2 * b)
           y == [at |-> 0, stride |-> 2 * a, rows |-> 2 * b, width |-> 2 * a]
           u == [at |-> uv, stride |-> a, rows |-> b, width |-> a]
           v == [at |-> uv + (a * (2 * b)) \div 2, stride |-> a, rows |-> b, width |-> a]
<1>1. g \in Nat /\ uv = 4 * g /\ a * (2 * b) = 2 * g /\ 3 * (2 * a) * (2 * b) = 12 * g
  OBVIOUS
<1>2. 2 * a * (2 * b - 1) = 4 * g - 2 * a /\ a * (b - 1) = g - a
  OBVIOUS
<1> HIDE DEF g, uv
<1>3. (a * (2 * b)) \div 2 = g /\ (3 * (2 * a) * (2 * b)) \div 2 = 6 * g
  BY <1>1
<1>4. LastByte(y) = 4 * g /\ LastByte(u) = 5 * g /\ LastByte(v) = 6 * g
  BY <1>1, <1>2, <1>3 DEF LastByte
<1>5. LastByte(y) <= u.at /\ LastByte(y) <= v.at /\ LastByte(u) <= v.at
  BY <1>1, <1>3, <1>4
<1>6. LastByte(y) <= 6 * g /\ LastByte(u) <= 6 * g /\ LastByte(v) <= 6 * g
  BY <1>1, <1>4
<1>7. y.width <= y.stride /\ u.width <= u.stride /\ v.width <= v.stride
  OBVIOUS
<1> HIDE DEF y, u, v
<1>8. Fit({y, u, v}, 6 * g)
  BY <1>5, <1>6, <1>7 DEF Fit
<1> QED
  BY <1>3, <1>8 DEF y, u, v, uv

\* The layout of a format with padding, for a picture of 2a by 2b.
LEMMA Padded ==
  ASSUME NEW size \in (Nat \ {0}) \X (Nat \ {0}), NEW k \in {64, 128}, NEW f \in {"tiled", "packed"},
         k = IF f = "tiled" THEN 64 ELSE 128, size[2] % 2 = 0
  PROVE  \E c \in Nat \ {0}, e \in Nat \ {0} :
            /\ c = Align(size[1], k) /\ 2 * e = Align(size[2], 32)
            /\ getStride(size, f) = [y |-> <<c, 2 * e>>, uv |-> <<c, e>>]
            /\ Length(size, f) = (3 * c * (2 * e)) \div 2
            /\ size[1] <= c /\ size[2] <= 2 * e
<1> DEFINE w == size[1]
           h == size[2]
           c == Align(w, k)
           l == Align(h, 32)
<1>1. w \in Nat \ {0} /\ h \in Nat \ {0}
  OBVIOUS
<1>2. c \in Nat \ {0} /\ c >= w /\ k * ((w + k - 1) \div k) = c
  <2>1. k \in Nat \ {0}
    OBVIOUS
  <2> HIDE DEF w
  <2>2. \A j \in Nat \ {0} :
           Align(w, j) \in Nat \ {0} /\ Align(w, j) >= w /\ j * ((w + j - 1) \div j) = Align(w, j)
    BY <1>1, AlignUp
  <2> QED
    BY <2>1, <2>2, Zenon
<1>3. l \in Nat \ {0} /\ l >= h /\ 32 * ((h + 32 - 1) \div 32) = l /\ l % 2 = 0
  <2>1. 32 \in Nat \ {0} /\ h % 2 = 0
    OBVIOUS
  <2> HIDE DEF h
  <2>2. l \in Nat \ {0} /\ l >= h /\ 32 * ((h + 32 - 1) \div 32) = l
    BY <1>1, <2>1, AlignUp
  <2> QED
    BY <1>1, <2>1, <2>2, RowsEven
<1>4. PICK e \in Nat \ {0} : l = 2 * e /\ l \div 2 = e
  BY <1>3, Halved
<1>5. getStride(size, f) = [y |-> <<c, l>>, uv |-> <<c, l \div 2>>]
  BY DEF getStride, Aligned
<1>6. Length(size, f) = (3 * c * l) \div 2
  BY <1>2, <1>3 DEF Length
<1>7. c = Align(size[1], k) /\ l = Align(size[2], 32) /\ w = size[1] /\ h = size[2]
  OBVIOUS
<1> HIDE DEF c, l, w, h
<1>8. /\ getStride(size, f) = [y |-> <<c, 2 * e>>, uv |-> <<c, e>>]
      /\ Length(size, f) = (3 * c * (2 * e)) \div 2
  BY <1>4, <1>5, <1>6
<1>9. c \in Nat \ {0} /\ size[1] <= c /\ size[2] <= 2 * e /\ 2 * e = Align(size[2], 32)
  BY <1>2, <1>3, <1>4, <1>7
<1> c \in Nat \ {0} /\ e \in Nat \ {0}
  BY <1>4, <1>9
<1> WITNESS c \in Nat \ {0}, e \in Nat \ {0}
<1> QED
  BY <1>7, <1>8, <1>9

\* A padded picture is longer: what is copied of it does not fit where it would without.
LEMMA Longer ==
  ASSUME NEW w \in Nat \ {0}, NEW h \in Nat \ {0}, NEW c \in Nat, NEW l \in Nat, w <= c, h <= l
  PROVE  (3 * c * l) \div 2 <= (3 * w * h) \div 2 <=> (c = w /\ l = h)
<1> DEFINE m == w * h
           n == c * l
<1>1. m \in Nat /\ n \in Nat /\ 3 * w * h = 3 * m /\ 3 * c * l = 3 * n
  OBVIOUS
<1>2. c # w \/ l # h => n > m
  <2>1. w * l \in Nat /\ m <= w * l
    BY Grows
  <2>2. l * w <= l * c /\ l * w = w * l /\ l * c = n
    BY Grows
  <2>3. l # h => w * l >= m + w
    BY Times
  <2>4. c # w => l * c >= l * w + l
    BY Times
  <2> HIDE DEF m, n
  <2> QED
    BY <1>1, <2>1, <2>2, <2>3, <2>4
<1>3. c = w /\ l = h => m = n
  OBVIOUS
<1> HIDE DEF m, n
<1>4. (3 * n) \div 2 <= (3 * m) \div 2 <=> n <= m
  BY <1>1
<1> QED
  BY <1>1, <1>2, <1>3, <1>4

\* Planes of any even size, in each format.
LEMMA PlanesFit ==
  ASSUME NEW size \in (Nat \ {0}) \X (Nat \ {0}), size[1] % 2 = 0, size[2] % 2 = 0, NEW f \in Formats
  PROVE  /\ toNV21(size, f) <= nv21_size(size) <=> getStride(size, f).y = size
         /\ Fit(Planes(size, f), Length(size, f))
<1>1. PICK a \in Nat \ {0} : size[1] = 2 * a /\ size[1] \div 2 = a /\ (size[1] + 1) \div 2 = a
  BY Halved
<1>2. PICK b \in Nat \ {0} : size[2] = 2 * b /\ size[2] \div 2 = b /\ (size[2] + 1) \div 2 = b
  BY Halved
<1>3. CASE f = "planar"
  <2>1. getStride(size, f) = [y |-> size, uv |-> <<a, 2 * b>>] /\ Length(size, f) = (3 * (2 * a) * (2 * b)) \div 2
    BY <1>1, <1>2, <1>3 DEF getStride, Length
  <2>2. Planes(size, f) =
          {[at |-> 0, stride |-> 2 * a, rows |-> 2 * b, width |-> 2 * a],
           [at |-> 2 * a * (2 * b), stride |-> a, rows |-> b, width |-> a],
           [at |-> 2 * a * (2 * b) + (a * (2 * b)) \div 2, stride |-> a, rows |-> b, width |-> a]}
    BY <1>1, <1>2, <1>3, <2>1 DEF Planes
  <2>3. toNV21(size, f) = nv21_size(size)
    BY <1>1, <1>2, <2>1 DEF toNV21, nv21_size
  <2>4. nv21_size(size) \in Int
    BY DEF nv21_size
  <2> QED
    BY <2>1, <2>2, <2>3, <2>4, ThreePlanes
<1>4. CASE f = "semiplanar"
  <2>1. getStride(size, f) = [y |-> size, uv |-> <<2 * a, b>>] /\ Length(size, f) = (3 * (2 * a) * (2 * b)) \div 2
    BY <1>1, <1>2, <1>4 DEF getStride, Length
  <2>2. Planes(size, f) =
          {[at |-> 0, stride |-> 2 * a, rows |-> 2 * b, width |-> 2 * a],
           [at |-> 2 * a * (2 * b), stride |-> 2 * a, rows |-> b, width |-> 2 * a]}
    BY <1>1, <1>2, <1>4, <2>1 DEF Planes
  <2>3. toNV21(size, f) = nv21_size(size)
    BY <1>1, <1>2, <2>1 DEF toNV21, nv21_size
  <2>4. nv21_size(size) \in Int
    BY DEF nv21_size
  <2> QED
    <3>1. Fit(Planes(size, f), Length(size, f))
      <4>1. 2 * a \in Nat \ {0} /\ 2 * a <= 2 * a /\ b <= b
        OBVIOUS
      <4>2. ASSUME NEW c \in Nat \ {0}, c = 2 * a
            PROVE  Fit({[at |-> 0, stride |-> c, rows |-> 2 * b, width |-> 2 * a],
                        [at |-> c * (2 * b), stride |-> c, rows |-> b, width |-> 2 * a]},
                       (3 * c * (2 * b)) \div 2)
        BY <4>1, <4>2, TwoPlanes
      <4> QED
        BY <2>1, <2>2, <4>1, <4>2
    <3> QED
      BY <2>1, <2>3, <2>4, <3>1
<1>5. CASE f \in {"tiled", "packed"}
  <2>1. PICK c \in Nat \ {0}, e \in Nat \ {0} :
            /\ getStride(size, f) = [y |-> <<c, 2 * e>>, uv |-> <<c, e>>]
            /\ Length(size, f) = (3 * c * (2 * e)) \div 2
            /\ size[1] <= c /\ size[2] <= 2 * e
    BY <1>5, Padded
  <2>2. Planes(size, f) =
          {[at |-> 0, stride |-> c, rows |-> 2 * b, width |-> 2 * a],
           [at |-> c * (2 * e), stride |-> c, rows |-> b, width |-> 2 * a]}
    BY <1>1, <1>2, <1>5, <2>1 DEF Planes
  <2>3. 2 * a <= c /\ b <= e
    BY <1>1, <1>2, <2>1
  <2>4. Fit(Planes(size, f), Length(size, f))
    <3>1. Fit({[at |-> 0, stride |-> c, rows |-> 2 * b, width |-> 2 * a],
               [at |-> c * (2 * e), stride |-> c, rows |-> b, width |-> 2 * a]},
              (3 * c * (2 * e)) \div 2)
      BY <2>3, TwoPlanes
    <3> QED
      BY <2>1, <2>2, <3>1
  <2>5. getStride(size, f).y = size <=> (c = size[1] /\ 2 * e = size[2])
    BY <2>1
  <2> QED
    BY <2>1, <2>4, <2>5, Longer DEF toNV21, nv21_size
<1> QED
  BY <1>3, <1>4, <1>5 DEF Formats

\* For pictures of any even size and every colour format of the codec: the planes
\* that senderThread reads are in the packet and do not share a byte, and the copy of
\* toNV21 fits into its array exactly when the format has no padding (PlanesApart).
THEOREM PlanesApartAlways ==
  ASSUME EvenSizes
  PROVE  Spec => []PlanesApart
<1>1. IInv => PlanesApart
  <2> SUFFICES ASSUME TypeOK, Handed, sender = "buffer" PROVE PlanesApart
    BY DEF PlanesApart, IInv
  <2>1. Size \in Sizes /\ colorFormat \in Formats
    BY DEF TypeOK, Handed, Size, Picture
  <2>2. /\ Size \in (Nat \ {0}) \X (Nat \ {0}) /\ Size[1] % 2 = 0 /\ Size[2] % 2 = 0
    BY <2>1, RendererAssumption DEF EvenSizes
  <2>3. /\ toNV21(Size, colorFormat) <= nv21_size(Size) <=> getStride(Size, colorFormat).y = Size
        /\ Fit(Planes(Size, colorFormat), Length(Size, colorFormat))
    BY <2>1, <2>2, PlanesFit
  <2> QED
    BY <2>3 DEF PlanesApart, Fit
<1> QED
  BY <1>1, Inductive, PTL
=============================================================================
