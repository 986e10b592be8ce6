-------------------------- MODULE MCContactEpisodes --------------------------
\* A small instance of ContactEpisodes.
EXTENDS ContactEpisodes

CONSTANT e1

MCOneEpisode == {e1}
=============================================================================
