----------------------------- MODULE MCAsyncTask -----------------------------
(* Three handlers and three threads: the least that meets a restart after a  *)
(* restart, and a thread replaced while another is waited for.              *)
EXTENDS AsyncTask

MCMaxPosts == 3
MCMaxStarts == 3
==============================================================================
