---------------------------- MODULE MCQuestioner ----------------------------
EXTENDS Questioner
=============================================================================
