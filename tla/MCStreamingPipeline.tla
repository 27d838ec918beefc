------------------------ MODULE MCStreamingPipeline ------------------------
EXTENDS StreamingPipeline

\* One chunk more than a channel holds; the last one is short.
ThreeChunks == <<2, 2, 1>>
=============================================================================
