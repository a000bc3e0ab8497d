--------------------------- MODULE MCLocalWorker ---------------------------
(* LocalWorker with the fallbacks of the code, for a request that names    *)
(* one of them and a request that names another detector.                  *)
EXTENDS LocalWorker

MCFallbacks == <<"retinaface", "mtcnn", "mediapipe", "opencv">>
MCDetectors == {"retinaface", "mtcnn", "mediapipe", "opencv", "ssd"}
=============================================================================
