----------------------- MODULE MCBufferedTranslation -----------------------
EXTENDS BufferedTranslation
=============================================================================
