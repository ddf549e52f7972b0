----------------------------- MODULE MCTeamPool -----------------------------
EXTENDS TeamPool
=============================================================================
