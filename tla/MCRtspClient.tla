---- MODULE MCRtspClient ----
\* Two Rtsp objects with two subsessions each: a second start while the first
\* object is there, and a stop and start again.
EXTENDS RtspClient
====
